---- MODULE Spec2Model ----
(***************************************************************************)
(* SharkRadio front end: the session store (stores/sdrStore, the version   *)
(* with per-device telemetry, persistence and the decoded-packet queue)    *)
(* and the channel owner (composables/useWebSocket.ts).                    *)
(*                                                                         *)
(* JavaScript runs every handler to completion on one thread, so each      *)
(* handler (an inbound frame, a timer, an operator intent) is one action.  *)
(***************************************************************************)
EXTENDS Integers, Sequences, FiniteSets, TLC

(***************************************************************************)
(* Bounds of the model.                                                    *)
(***************************************************************************)
\* sendCommand calls issued in one behaviour
MaxCalls == 2
\* WebSocket objects created in one behaviour (the first and its reconnects)
MaxSockets == 2
\* packet frames whose device and contents are free; later ones are for DevA
MixLen == 3
\* packet frames received beyond the queue's capacity
MaxOverrun == 3
\* readings of the clock (Date.now()) in one behaviour
MaxClock == 2
\* sessions in the session list at one time
MaxTabs == 2
\* sessions created in one process lifetime
MaxCreated == 2
\* process restarts in one behaviour
MaxRestarts == 1
MaxInputs == 3
\* sendCommand calls that code resuming after an await issues beyond MaxCalls
MaxFollowUps == 1

(***************************************************************************)
(* JavaScript values, as far as the handlers distinguish them.             *)
(***************************************************************************)
Undefined == [t |-> "undefined"]
Null      == [t |-> "null"]
Bool(b)   == [t |-> "boolean", v |-> b]
Str(s)    == [t |-> "string", v |-> s]
Num(n)    == [t |-> "number", v |-> n]
Arr(s)    == [t |-> "array", v |-> s]
Obj(r)    == [t |-> "object", v |-> r]

\* ToBoolean: what `if (x)`, `!x`, `a && b` and `a || b` test
Truthy(x) ==
    CASE x.t = "undefined" -> FALSE
      [] x.t = "null"      -> FALSE
      [] x.t = "boolean"   -> x.v
      [] x.t = "string"    -> x.v # ""
      [] x.t = "number"    -> x.v # 0
      [] OTHER             -> TRUE

\* typeof x === 'boolean'
IsBoolean(x) == x.t = "boolean"

(***************************************************************************)
(* The names of the model's finite domains.                                *)
(***************************************************************************)
DevA == "usb:1.5"
DevB == "usb:1.6"
Devices == {DevA, DevB}

CmdNames ==
    {"connect_device", "start_streaming", "stop_streaming", "start_tx_signal",
     "scan_devices", "configure_device", "enable_tx"}
\* the commands of the device list and of a session that is not streaming
DeviceCmds == {"connect_device", "start_streaming"}

Calls == 1..(MaxCalls + MaxFollowUps)
\* the calls that event handlers issue; the later ones are left to code that
\* resumes after an await
HandlerCalls == 1..MaxCalls
Sockets == 1..MaxSockets

\* error strings of the synthetic responses (the source's are in Chinese:
\* 'WebSocket 未连接' and '命令超时')
NotConnectedError == "WebSocket not connected"
TimeoutError == "command timeout"

(***************************************************************************)
(* An inbound frame after JSON.parse: the fields the handlers read.  A     *)
(* field the frame does not carry is Undefined.  parseable = FALSE is a    *)
(* frame on which JSON.parse throws.  req is not on the wire: it names the *)
(* sendCommand call whose request the peer answered with this frame        *)
(* (0: unsolicited), and no handler reads it.                              *)
(***************************************************************************)
EmptyMsg ==
    [parseable |-> TRUE, cmd |-> Undefined, type |-> Undefined,
     success |-> Undefined, data |-> Undefined, error |-> Undefined,
     device_id |-> Undefined, frequencies |-> Undefined, power |-> Undefined,
     overflow |-> Undefined, underflow |-> Undefined,
     timestamp |-> Undefined, hex |-> Undefined, packet_type |-> Undefined,
     is_valid |-> Undefined, req |-> 0]

BadMsg == [EmptyMsg EXCEPT !.parseable = FALSE]

\* { cmd, success, data, error }
CommandResponse(cmd, success, data, error) ==
    [EmptyMsg EXCEPT !.cmd = Str(cmd), !.success = Bool(success),
                     !.data = data, !.error = error]

VARIABLES
    \* useWebSocket.ts
    socket,          \* socket.value: 0 (null) or the latest WebSocket
    readyState,      \* of each WebSocket object
    onmessage,       \* the inbound handler installed on each WebSocket
    isConnected,     \* the composable's isConnected
    reconnectTimer,  \* a reconnect timeout is pending
    pingInterval,    \* a heartbeat interval is pending
    lifecycle,       \* "created", "mounted", "unmounted"
    \* the store
    wsSocket,        \* wsSocket.value: 0 (null) or a WebSocket
    pendingCommands, \* command name -> 0 (no entry) or the call whose resolver it holds
    spectrums,       \* deviceId -> NoSpectrum or {frequencies, power}
    runtimeStatus,   \* deviceId -> NoStatus or {overflow, underflow}
    decodedPackets,  \* the decoded-packet queue
    \* the sendCommand calls (promises and their timers)
    nCalls,          \* calls issued so far
    callCmd,         \* the command name of each call
    timer,           \* the call's 10 s timeout is armed
    resolveCount,    \* how often the call's promise `resolve` was invoked
    result,          \* what the promise resolved with (the first `resolve` wins)
    caller,          \* the code that awaits the call's promise
    txSpectrums,     \* deviceId -> NoSpectrum or the transmit preview
    tabs,            \* the session list
    activeTabId,     \* NoTabId (null) or the id of the active session
    connectedDeviceIds, \* the attached devices
    devices,         \* the device list of the last scan
    storage,         \* localStorage['sharkradio_saved_tabs']
    now,             \* the reading of the clock, Date.now()
    restarts,        \* how often the process was restarted
    \* history of the sessions
    created,         \* the ids createTab gave out since the process started
    atStop,          \* the persisted list when the process last stopped
    selectorDevices, \* devices.value of the device selector: the scanned list
    \* the broadcast payload dialog
    activeTab,       \* activeTab.value: the key of the selected pane
    manualHex,       \* manualHex.value
    form0A01,        \* the position form
    form0A02,        \* the health form
    form0A04,        \* the match status form
    form0A05,        \* the buff form
    broadcastModalVisible, \* the parent's ref behind props.visible
    modelValue,      \* what 'update:modelValue' last carried
    modalInputs,     \* the operator's inputs to the dialog so far
    \* the session view (RadarProgress.vue)
    txEnabled,       \* the tabIds of the views whose txEnabled.value is true
    resumed,         \* the calls after whose await enableTx has resumed
    \* the wire
    sentOn,          \* the WebSocket each call's request was sent on (0: not sent)
    answered,        \* the peer has answered the call's request
    \* history: what the handlers were given
    replaced,        \* the call whose pending resolver this call's replaced (0: none)
    received,        \* the packet frames received, in arrival order
    last             \* the last handler that ran and its input

channelVars == <<socket, readyState, onmessage, isConnected, reconnectTimer,
                 pingInterval, lifecycle>>
telemetryVars == <<spectrums, runtimeStatus, decodedPackets, txSpectrums>>
sessionVars == <<tabs, activeTabId, connectedDeviceIds, devices, storage,
                 now, restarts, created, atStop,
                   selectorDevices>>
modalVars == <<activeTab, manualHex, form0A01, form0A02, form0A04, form0A05,
               broadcastModalVisible, modelValue, modalInputs>>
viewVars == <<txEnabled, resumed>>
callVars == <<nCalls, callCmd, timer, resolveCount, result, caller>>
wireVars == <<sentOn, answered, replaced>>
vars == <<socket, readyState, onmessage, isConnected, reconnectTimer,
          pingInterval, lifecycle, wsSocket, pendingCommands, spectrums,
          runtimeStatus, decodedPackets, nCalls, callCmd, timer, resolveCount,
          result, caller, txSpectrums, tabs, activeTabId, connectedDeviceIds, devices,
          storage, now, restarts, created, atStop, selectorDevices,
          activeTab, manualHex, form0A01, form0A02, form0A04, form0A05,
          broadcastModalVisible, modelValue, modalInputs, txEnabled,
          resumed, sentOn,
          answered,
          replaced, received, last>>

NoSpectrum == [absent |-> TRUE]
NoStatus == [absent |-> TRUE]
NoResult == [absent |-> TRUE]

Last(op, call, frame) == [op |-> op, call |-> call, frame |-> frame]

\* a sendCommand call whose promise no store or view code modelled here
\* awaits
NoCaller ==
    [kind |-> "none", tabId |-> <<"", 0>>, currentState |-> FALSE,
     deviceId |-> ""]

\* a session id: `${device.id}_${Date.now()}`
TabId(d, t) == <<d, t>>
\* activeTabId.value === null
NoTabId == <<"", 0>>

(***************************************************************************)
(* The broadcast payload dialog (BroadcastConfigModal.vue).  A string is   *)
(* the sequence of its characters; a number of a form field is held in     *)
(* tenths, so that an input such as 1.5 has a value.                       *)
(***************************************************************************)
Tenths == 10
\* the number n of a form field
Units(n) == Num(n * Tenths)

\* Math.floor(x) of a form number
MathFloor(x) == x.v \div Tenths

\* num || 0
OrZero(num) == IF Truthy(num) THEN num ELSE Num(0)

HexDigits ==
    <<"0", "1", "2", "3", "4", "5", "6", "7", "8", "9",
      "a", "b", "c", "d", "e", "f">>

\* Number.prototype.toString(16) of an integer
RECURSIVE ToString16Nat(_)
ToString16Nat(n) ==
    IF n < 16 THEN <<HexDigits[n + 1]>>
    ELSE Append(ToString16Nat(n \div 16), HexDigits[(n % 16) + 1])

ToString16(n) ==
    IF n < 0 THEN <<"-">> \o ToString16Nat(0 - n) ELSE ToString16Nat(n)

\* String.prototype.padStart(width, ch)
PadStart(s, width, ch) ==
    IF Len(s) >= width THEN s
    ELSE [i \in 1..(width - Len(s)) |-> ch] \o s

\* hex.match(/.{1,2}/g) || []: pairs from the left, the last one may be a
\* single character
MatchPairs(s) ==
    [i \in 1..((Len(s) + 1) \div 2) |->
        SubSeq(s, 2 * i - 1, IF 2 * i <= Len(s) THEN 2 * i ELSE Len(s))]

\* Array.prototype.reverse
Reverse(a) == [i \in 1..Len(a) |-> a[Len(a) + 1 - i]]

\* Array.prototype.join('')
RECURSIVE Join(_)
Join(a) == IF a = <<>> THEN <<>> ELSE Head(a) \o Join(Tail(a))

LowerCase ==
    <<"a", "b", "c", "d", "e", "f", "g", "h", "i", "j", "k", "l", "m",
      "n", "o", "p", "q", "r", "s", "t", "u", "v", "w", "x", "y", "z">>
UpperCase ==
    <<"A", "B", "C", "D", "E", "F", "G", "H", "I", "J", "K", "L", "M",
      "N", "O", "P", "Q", "R", "S", "T", "U", "V", "W", "X", "Y", "Z">>

ToUpperCaseNone(s) == s

\* String.prototype.toUpperCase
ToUpperCase(s) ==
    [i \in 1..Len(s) |->
        IF \E j \in 1..26 : LowerCase[j] = s[i]
        THEN UpperCase[CHOOSE j \in 1..26 : LowerCase[j] = s[i]]
        ELSE s[i]]

Whitespace == {" ", "\t", "\n"}

\* s.replace(/\s/g, '')
RemoveWhitespace(s) == SelectSeq(s, LAMBDA c : c \notin Whitespace)

toLEHexBigEndian(num, bytes) ==
    PadStart(ToString16(MathFloor(OrZero(num))), bytes * 2, "0")

\* toLEHex: the hex digits of the floored number, padded to the width,
\* cut into pairs, the pairs reversed
toLEHex(num, bytes) ==
    LET hex == PadStart(ToString16(MathFloor(OrZero(num))), bytes * 2, "0")
        pairs == MatchPairs(hex)
    IN  Join(Reverse(pairs))

\* toByte
toByte(num) == PadStart(ToString16(MathFloor(OrZero(num))), 2, "0")

genBuffAttackFirst(b) ==
    toByte(b.hp_rec) \o toLEHex(b.att, 2) \o toByte(b.def)
       \o toByte(b.neg_def) \o toLEHex(b.cool, 2)

\* genBuff
genBuff(b) ==
    toByte(b.hp_rec) \o toLEHex(b.cool, 2) \o toByte(b.def)
       \o toByte(b.neg_def) \o toLEHex(b.att, 2)

MaskBitsHighlandTwo ==
    << <<"occupied_supply", 0>>, <<"occupied_highland", 2>>,
       <<"occupied_fort", 4>>, <<"occupied_base", 8>>,
       <<"tunnel_opp_pre", 9>>, <<"tunnel_opp_post", 10>>,
       <<"tunnel_self_pre", 11>>, <<"tunnel_self_post", 12>>,
       <<"card_highland", 13>>, <<"card_ramp", 14>>,
       <<"card_highway", 15>> >>

\* the flags of form0A04 and the bit each one sets, in the order of the code
MaskBits ==
    << <<"occupied_supply", 0>>, <<"occupied_highland", 1>>,
       <<"occupied_fort", 4>>, <<"occupied_base", 8>>,
       <<"tunnel_opp_pre", 9>>, <<"tunnel_opp_post", 10>>,
       <<"tunnel_self_pre", 11>>, <<"tunnel_self_post", 12>>,
       <<"card_highland", 13>>, <<"card_ramp", 14>>,
       <<"card_highway", 15>> >>

\* a | b of two non-negative 32-bit integers
RECURSIVE BitOr(_, _)
BitOr(a, b) ==
    IF a = 0 THEN b
    ELSE IF b = 0 THEN a
    ELSE (IF a % 2 = 1 \/ b % 2 = 1 THEN 1 ELSE 0)
            + 2 * BitOr(a \div 2, b \div 2)

\* mask after the first i `if (form0A04.flag) mask |= (1 << bit)` lines
RECURSIVE MaskAfter(_, _)
MaskAfter(f, i) ==
    IF i = 0 THEN 0
    ELSE LET mask == MaskAfter(f, i - 1) IN
         IF Truthy(f[MaskBits[i][1]]) THEN BitOr(mask, 2 ^ MaskBits[i][2])
         ELSE mask

Position0A01(f) ==
    toLEHex(f.hero_x, 2) \o toLEHex(f.hero_y, 2)
       \o toLEHex(f.eng_x, 2) \o toLEHex(f.eng_y, 2)
       \o toLEHex(f.inf3_x, 2) \o toLEHex(f.inf3_y, 2)
       \o toLEHex(f.inf4_x, 2) \o toLEHex(f.inf4_y, 2)
       \o toLEHex(f.air_x, 2) \o toLEHex(f.air_y, 2)
       \o toLEHex(f.sentry_x, 2) \o toLEHex(f.sentry_y, 2)

Health0A02(f) ==
    toLEHex(f.hero_hp, 2) \o toLEHex(f.eng_hp, 2)
       \o toLEHex(f.inf3_hp, 2) \o toLEHex(f.inf4_hp, 2)
       \o <<"0", "0", "0", "0">>
       \o toLEHex(f.sentry_hp, 2)

Status0A04(f) ==
    toLEHex(f.gold, 2) \o <<"0", "0", "0", "0">>
       \o toLEHex(Units(MaskAfter(f, Len(MaskBits))), 4)

Buff0A05(f) ==
    genBuff(f.hero) \o genBuff(f.eng) \o genBuff(f.inf3) \o genBuff(f.inf4)
       \o genBuff(f.sentry) \o toByte(f.sentry.attitude)

\* generatedPayload.value
generatedPayload ==
    IF activeTab = "raw" THEN ToUpperCase(RemoveWhitespace(manualHex))
    ELSE ToUpperCase(
            CASE activeTab = "0x0A01" -> Position0A01(form0A01)
              [] activeTab = "0x0A02" -> Health0A02(form0A02)
              [] activeTab = "0x0A04" -> Status0A04(form0A04)
              [] activeTab = "0x0A05" -> Buff0A05(form0A05)
              [] OTHER -> <<>>)

TabKeys == {"0x0A01", "0x0A02", "0x0A04", "0x0A05", "raw"}
PositionFields ==
    {"hero_x", "hero_y", "eng_x", "eng_y", "inf3_x", "inf3_y",
     "inf4_x", "inf4_y", "air_x", "air_y", "sentry_x", "sentry_y"}
HealthFields == {"hero_hp", "eng_hp", "sentry_hp", "inf3_hp", "inf4_hp"}
FlagFields == {MaskBits[i][1] : i \in 1..Len(MaskBits)}
BuffUnits == {"hero", "eng", "inf3", "inf4", "sentry"}
BuffBytes == {"hp_rec", "def", "neg_def", "attitude"}
BuffWords == {"cool", "att"}
\* the inputs of the buff pane: attitude has one for the sentry only
BuffInputs ==
    {<<u, f>> \in BuffUnits \X (BuffBytes \cup BuffWords) :
        f = "attitude" => u = "sentry"}

defaultBuffs ==
    [hp_rec |-> Num(0), cool |-> Num(0), att |-> Num(0), def |-> Num(0),
     neg_def |-> Num(0), attitude |-> Num(0)]

\* the reactive forms as the dialog's setup creates them
ModalSetup ==
    [form0A01 |-> [f \in PositionFields |-> Num(0)],
     form0A02 |-> [hero_hp |-> Units(200), eng_hp |-> Units(400),
                   sentry_hp |-> Units(600), inf3_hp |-> Units(150),
                   inf4_hp |-> Units(150)],
     form0A04 |-> [f \in FlagFields \cup {"gold"} |->
                      IF f = "gold" THEN Num(0) ELSE Bool(FALSE)],
     form0A05 |-> [u \in BuffUnits |-> defaultBuffs]]

\* the dialog as its setup leaves it
InitModal ==
    /\ activeTab = "0x0A01"
    /\ manualHex = <<>>
    /\ form0A01 = ModalSetup.form0A01
    /\ form0A02 = ModalSetup.form0A02
    /\ form0A04 = ModalSetup.form0A04
    /\ form0A05 = ModalSetup.form0A05
    /\ broadcastModalVisible = FALSE
    /\ modelValue = Undefined
    /\ modalInputs = 0

\* the store, the composable and the views as their setup leaves them
InitStore ==
    /\ socket = 0
    /\ readyState = [s \in Sockets |-> "UNUSED"]
    /\ onmessage = [s \in Sockets |-> "none"]
    /\ isConnected = FALSE
    /\ reconnectTimer = FALSE
    /\ pingInterval = FALSE
    /\ lifecycle = "created"
    /\ wsSocket = 0
    /\ pendingCommands = [c \in CmdNames |-> 0]
    /\ spectrums = [d \in Devices |-> NoSpectrum]
    /\ runtimeStatus = [d \in Devices |-> NoStatus]
    /\ decodedPackets = <<>>
    /\ nCalls = 0
    /\ callCmd = [k \in Calls |-> ""]
    /\ timer = [k \in Calls |-> FALSE]
    /\ resolveCount = [k \in Calls |-> 0]
    /\ result = [k \in Calls |-> NoResult]
    /\ caller = [k \in Calls |-> NoCaller]
    /\ sentOn = [k \in Calls |-> 0]
    /\ answered = [k \in Calls |-> FALSE]
    /\ txSpectrums = [d \in Devices |-> NoSpectrum]
    /\ tabs = <<>>
    /\ activeTabId = NoTabId
    /\ connectedDeviceIds = <<>>
    /\ devices = <<>>
    /\ storage = <<>>
    /\ now = 1
    /\ restarts = 0
    /\ created = <<>>
    /\ atStop = <<>>
    /\ selectorDevices = Arr(<<>>)
    /\ txEnabled = {}
    /\ resumed = {}
    /\ replaced = [k \in Calls |-> 0]
    /\ received = <<>>
    /\ last = Last("init", 0, EmptyMsg)

Init == InitStore /\ InitModal

(***************************************************************************)
(* The store: telemetry.                                                   *)
(***************************************************************************)
MAX_PACKETS == 100

\* the object literal the store's onmessage passes to updateSpectrum
SpectrumArgs(msg) ==
    [frequencies |-> msg.frequencies, power |-> msg.power,
     device_id |-> msg.device_id, overflow |-> msg.overflow,
     underflow |-> msg.underflow]

\* the object literal the composable's onmessage passes to updateSpectrum
ComposableSpectrumArgs(msg) ==
    [frequencies |-> msg.frequencies, power |-> msg.power,
     device_id |-> Undefined, overflow |-> Undefined, underflow |-> Undefined]

\* msg.data read as an updateSpectrum argument: the properties of an object,
\* and undefined properties of any other truthy value
DataArgs(data) ==
    IF data.t = "object" THEN data.v
    ELSE [frequencies |-> Undefined, power |-> Undefined,
          device_id |-> Undefined, overflow |-> Undefined,
          underflow |-> Undefined]

\* one spectrum for every device, as the store kept it before it had the
\* per-device map
UpdateSpectrumsShared(sp, data) ==
    IF ~Truthy(data.device_id) THEN sp
    ELSE IF Truthy(data.frequencies) /\ Truthy(data.power)
         THEN [d \in Devices |->
                  [frequencies |-> data.frequencies, power |-> data.power]]
         ELSE sp

\* a frame without device_id is taken to be for the first device
UpdateSpectrumsDefaultDevice(sp, data) ==
    IF Truthy(data.frequencies) /\ Truthy(data.power)
    THEN [sp EXCEPT ![IF Truthy(data.device_id) THEN data.device_id.v
                      ELSE DevA] =
             [frequencies |-> data.frequencies, power |-> data.power]]
    ELSE sp

\* updateSpectrum, the spectrums map
UpdateSpectrums(sp, data) ==
    IF ~Truthy(data.device_id) THEN sp
    ELSE IF Truthy(data.frequencies) /\ Truthy(data.power)
         THEN [sp EXCEPT ![data.device_id.v] =
                  [frequencies |-> data.frequencies, power |-> data.power]]
         ELSE sp

\* runtimeStatus.value[deviceId] || { overflow: false, underflow: false }
StatusOrDefault(rs, deviceId) ==
    IF rs[deviceId] = NoStatus
    THEN [overflow |-> FALSE, underflow |-> FALSE]
    ELSE rs[deviceId]

\* the flags with the abandoned updateSticky helper applied: a reported
\* true sets the flag, a reported false keeps the old value
UpdateRuntimeStatusSticky(rs, data) ==
    IF ~Truthy(data.device_id) THEN rs
    ELSE IF IsBoolean(data.overflow) \/ IsBoolean(data.underflow)
         THEN LET current == StatusOrDefault(rs, data.device_id.v)
                  c1 == IF IsBoolean(data.overflow) /\ data.overflow.v
                        THEN [current EXCEPT !.overflow = TRUE]
                        ELSE current
                  c2 == IF IsBoolean(data.underflow) /\ data.underflow.v
                        THEN [c1 EXCEPT !.underflow = TRUE]
                        ELSE c1
              IN  [rs EXCEPT ![data.device_id.v] = c2]
         ELSE rs

\* updateSpectrum, the runtimeStatus map
UpdateRuntimeStatus(rs, data) ==
    IF ~Truthy(data.device_id) THEN rs
    ELSE IF IsBoolean(data.overflow) \/ IsBoolean(data.underflow)
         THEN LET current == StatusOrDefault(rs, data.device_id.v)
                  c1 == IF IsBoolean(data.overflow)
                        THEN [current EXCEPT !.overflow = data.overflow.v]
                        ELSE current
                  c2 == IF IsBoolean(data.underflow)
                        THEN [c1 EXCEPT !.underflow = data.underflow.v]
                        ELSE c1
              IN  [rs EXCEPT ![data.device_id.v] = c2]
         ELSE rs

\* the overflow and underflow the computed `status` reports for a device
StatusFlags(deviceId) == StatusOrDefault(runtimeStatus, deviceId)

\* the object literal onmessage passes to addDecodedPacket
PacketArgs(msg) ==
    [timestamp |-> msg.timestamp, hex |-> msg.hex,
     packetType |-> msg.packet_type, isValid |-> msg.is_valid,
     deviceId |-> msg.device_id]

\* arr.slice(-n)
SliceLast(arr, n) ==
    IF Len(arr) <= n THEN arr ELSE SubSeq(arr, Len(arr) - n + 1, Len(arr))

\* a queue trimmed as soon as it reaches the cap
AddDecodedPacketOffByOne(q, packet) ==
    LET pushed == Append(q, packet)
    IN  IF Len(pushed) >= MAX_PACKETS THEN SliceLast(pushed, MAX_PACKETS - 1)
        ELSE pushed

\* a queue that, over the cap, drops the oldest packet of the new packet's
\* device
AddDecodedPacketSameDevice(q, packet) ==
    LET pushed == Append(q, packet)
        same == {i \in 1..Len(pushed) : pushed[i].deviceId = packet.deviceId}
        drop == CHOOSE i \in same : \A j \in same : i <= j
    IN  IF Len(pushed) > MAX_PACKETS
        THEN SubSeq(pushed, 1, drop - 1) \o SubSeq(pushed, drop + 1, Len(pushed))
        ELSE pushed

\* addDecodedPacket
AddDecodedPacket(q, packet) ==
    LET pushed == Append(q, packet)
    IN  IF Len(pushed) > MAX_PACKETS THEN SliceLast(pushed, MAX_PACKETS)
        ELSE pushed

(***************************************************************************)
(* The store: sessions (tabs) and their persistence.                       *)
(***************************************************************************)
\* the devices of the registry: { id, name, ... }
SDRDevice(d) == [id |-> d, name |-> IF d = DevA THEN "Pluto-1" ELSE "Pluto-2"]

DEFAULT_CONFIG ==
    [centerFreq |-> 433500000, sampleRate |-> 2000000, gain |-> 50,
     bandwidth |-> 4000000, gainMode |-> "manual"]

\* a transmit default that keeps the receive gain
DefaultTxConfigRxGain == DEFAULT_CONFIG

\* { ...DEFAULT_CONFIG, gain: -10 }
DefaultTxConfig == [DEFAULT_CONFIG EXCEPT !.gain = -10]

\* saveTabs: the item written by localStorage.setItem.  JSON.stringify
\* keeps the five fields it is given; strings, numbers and the nested
\* configuration objects are written as they are.
SaveTabs(ts) ==
    [i \in 1..Len(ts) |->
        [deviceId |-> ts[i].deviceId, name |-> ts[i].name,
         mode |-> ts[i].mode, rxConfig |-> ts[i].rxConfig,
         txConfig |-> ts[i].txConfig]]

\* loadSavedTabs: JSON.parse of the item, or [] when there is none
LoadSavedTabs == storage

\* savedTabs.find(s => s.deviceId === device.id): its index, 0 for undefined
SavedConfigIndex(savedTabs, d) ==
    IF \E i \in 1..Len(savedTabs) : savedTabs[i].deviceId = d
    THEN CHOOSE i \in 1..Len(savedTabs) :
            /\ savedTabs[i].deviceId = d
            /\ \A j \in 1..(i - 1) : savedTabs[j].deviceId # d
    ELSE 0

\* the session createTab builds; customName "" is an omitted argument, and
\* rxSignalType and txSignalType "" are the properties the literal leaves out
NewTab(device, customName) ==
    LET savedTabs == LoadSavedTabs
        i == SavedConfigIndex(savedTabs, device.id)
    IN  [id |-> TabId(device.id, now),
         deviceId |-> device.id,
         name |-> IF customName # "" THEN customName
                  ELSE IF i # 0 /\ savedTabs[i].name # ""
                  THEN savedTabs[i].name
                  ELSE device.name,
         mode |-> IF i # 0 /\ savedTabs[i].mode # ""
                  THEN savedTabs[i].mode ELSE "rx",
         rxConfig |-> IF i # 0 THEN savedTabs[i].rxConfig ELSE DEFAULT_CONFIG,
         txConfig |-> IF i # 0 THEN savedTabs[i].txConfig ELSE DefaultTxConfig,
         rxSignalType |-> "",
         txSignalType |-> "",
         isActive |-> TRUE,
         isStreaming |-> FALSE]

\* array.includes(x)
Includes(seq, x) == \E i \in 1..Len(seq) : seq[i] = x

\* array.splice(i, 1)
SpliceOut(seq, i) == [j \in 1..(Len(seq) - 1) |-> IF j < i THEN seq[j] ELSE seq[j + 1]]

\* array.indexOf(x), counted from 1; 0 for -1
IndexOf(seq, x) ==
    IF Includes(seq, x)
    THEN CHOOSE i \in 1..Len(seq) :
            seq[i] = x /\ \A j \in 1..(i - 1) : seq[j] # x
    ELSE 0

\* tabs.findIndex(t => t.id === tabId), counted from 1; 0 for -1
FindIndex(ts, tabId) ==
    IF \E i \in 1..Len(ts) : ts[i].id = tabId
    THEN CHOOSE i \in 1..Len(ts) :
            ts[i].id = tabId /\ \A j \in 1..(i - 1) : ts[j].id # tabId
    ELSE 0

\* the activeTab computed: tabs.find(t => t.id === activeTabId) || null
NoTab == [id |-> NoTabId]
ActiveTab ==
    IF FindIndex(tabs, activeTabId) # 0
    THEN tabs[FindIndex(tabs, activeTabId)] ELSE NoTab

\* createTab: the attached devices
ConnectedAfterCreate(ids, d) == IF Includes(ids, d) THEN ids ELSE Append(ids, d)

\* createTab(device, customName?)
CreateTab(device, customName) ==
    /\ Len(tabs) < MaxTabs
    /\ Len(created) < MaxCreated
    /\ LET newTab == NewTab(device, customName) IN
       /\ tabs' = Append(tabs, newTab)
       /\ activeTabId' = newTab.id
       /\ connectedDeviceIds' =
             ConnectedAfterCreate(connectedDeviceIds, device.id)
       /\ storage' = SaveTabs(tabs')
       /\ created' = Append(created, newTab.id)
       /\ last' = Last("createTab", 0,
                       [device |-> device, customName |-> customName])
    /\ UNCHANGED <<channelVars, wsSocket, pendingCommands, telemetryVars,
                   callVars, wireVars, received, devices, now, restarts,
                   atStop,
                   selectorDevices,
                   modalVars, viewVars>>

\* a removeTab that detaches the device whoever else uses it
ConnectedAfterRemoveAlways(ids, rest, d) ==
    IF IndexOf(ids, d) # 0 THEN SpliceOut(ids, IndexOf(ids, d)) ELSE ids

\* removeTab: the attached devices, given the session list after the splice
ConnectedAfterRemove(ids, rest, d) ==
    IF ~(\E i \in 1..Len(rest) : rest[i].deviceId = d) /\ IndexOf(ids, d) # 0
    THEN SpliceOut(ids, IndexOf(ids, d))
    ELSE ids

\* a removeTab that keeps the active id it finds
ActiveAfterRemoveStale(active, rest, tabId) == active

\* removeTab: the active id, given the session list after the splice
ActiveAfterRemove(active, rest, tabId) ==
    IF active = tabId
    THEN (IF Len(rest) > 0 THEN rest[1].id ELSE NoTabId)
    ELSE active

\* removeTab(tabId)
RemoveTab(tabId) ==
    /\ LET index == FindIndex(tabs, tabId) IN
       IF index # 0
       THEN LET tab == tabs[index]
                rest == SpliceOut(tabs, index)
            IN  /\ tabs' = rest
                /\ connectedDeviceIds' =
                      ConnectedAfterRemove(connectedDeviceIds, rest,
                                           tab.deviceId)
                /\ activeTabId' = ActiveAfterRemove(activeTabId, rest, tabId)
                /\ storage' = SaveTabs(rest)
       ELSE UNCHANGED <<tabs, connectedDeviceIds, activeTabId, storage>>
    /\ last' = Last("removeTab", 0, [tabId |-> tabId, active |-> activeTabId])
    /\ UNCHANGED <<channelVars, wsSocket, pendingCommands, telemetryVars,
                   callVars, wireVars, received, devices, now, restarts,
                   created, atStop,
                   selectorDevices,
                   modalVars, viewVars>>

\* setActiveTab(tabId), with the key of a tab pane the operator clicked
SetActiveTab(tabId) ==
    /\ \E i \in 1..Len(tabs) : tabs[i].id = tabId
    /\ activeTabId' = tabId
    /\ last' = Last("setActiveTab", 0, [tabId |-> tabId])
    /\ UNCHANGED <<channelVars, wsSocket, pendingCommands, telemetryVars,
                   callVars, wireVars, received, tabs, connectedDeviceIds,
                   devices, storage, now, restarts, created, atStop,
                   selectorDevices,
                   modalVars, viewVars>>

\* an update that replaces the session: a name that is not given is lost
AssignReplace(tab, updates) ==
    [f \in DOMAIN tab |->
        IF f \in DOMAIN updates THEN updates[f]
        ELSE IF f = "name" THEN "" ELSE tab[f]]

\* Object.assign(tab, updates)
Assign(tab, updates) ==
    [f \in DOMAIN tab |-> IF f \in DOMAIN updates THEN updates[f] ELSE tab[f]]

\* updateTabConfig: the session list
TabsAfterUpdate(ts, tabId, updates) ==
    LET index == FindIndex(ts, tabId) IN
    IF index # 0
    THEN [ts EXCEPT ![index] = Assign(ts[index], updates)]
    ELSE ts

\* updateTabConfig: the persisted item
StorageAfterUpdate(ts, tabId, updates) ==
    IF FindIndex(ts, tabId) # 0
    THEN SaveTabs(TabsAfterUpdate(ts, tabId, updates))
    ELSE storage

\* updateTabConfig(tabId, updates)
UpdateTabConfig(tabId, updates) ==
    /\ tabs' = TabsAfterUpdate(tabs, tabId, updates)
    /\ storage' = StorageAfterUpdate(tabs, tabId, updates)
    /\ last' = Last("updateTabConfig", 0,
                    [tabId |-> tabId, updates |-> updates])
    /\ UNCHANGED <<channelVars, wsSocket, pendingCommands, telemetryVars,
                   callVars, wireVars, received, activeTabId,
                   connectedDeviceIds, devices, now, restarts, created,
                   atStop,
                   selectorDevices,
                   modalVars, viewVars>>

\* the named profiles of the two selects
ProfileNames ==
    {"red_broadcast", "red_jam_1", "red_jam_2", "red_jam_3",
     "blue_broadcast", "blue_jam_1", "blue_jam_2", "blue_jam_3"}

\* x * 1e6 for x given in hundredths of a MHz; the binary64 product of each
\* table entry with 1e6 is this whole number of Hz
MHz(x) == x * 10000

\* Math.max(a, b)
Max(a, b) == IF a > b THEN a ELSE b

\* signalParams of onRxSignalTypeChange: freq and bw in hundredths of a MHz
signalParams ==
    [n \in ProfileNames |->
        CASE n = "red_broadcast"  -> [freq |-> 43320, bw |-> 54]
          [] n = "red_jam_1"      -> [freq |-> 43220, bw |-> 104]
          [] n = "red_jam_2"      -> [freq |-> 43260, bw |-> 61]
          [] n = "red_jam_3"      -> [freq |-> 43320, bw |-> 44]
          [] n = "blue_broadcast" -> [freq |-> 43392, bw |-> 54]
          [] n = "blue_jam_1"     -> [freq |-> 43492, bw |-> 104]
          [] n = "blue_jam_2"     -> [freq |-> 43452, bw |-> 61]
          [] n = "blue_jam_3"     -> [freq |-> 43392, bw |-> 44]]

\* the receive bandwidth taken as the table gives it
RxBandwidthUnfloored(bw) == MHz(bw)

\* Math.max(params.bw * 1e6, 1e6)
RxBandwidth(bw) == Max(MHz(bw), MHz(100))

\* onRxSignalTypeChange, the assignments to config.value.rxConfig
RxConfigAfter(c, val) ==
    IF val \in DOMAIN signalParams
    THEN [c EXCEPT !.centerFreq = MHz(signalParams[val].freq),
                   !.bandwidth = RxBandwidth(signalParams[val].bw)]
    ELSE c

\* updateConfig(): store.updateTabConfig(props.tabId, { ...config.value })
\* after the view has written t (config.value is the first session with
\* the id props.tabId, and the view assigns to it in place)
UpdateConfig(tabId, t) ==
    LET written == [tabs EXCEPT ![FindIndex(tabs, tabId)] = t] IN
    /\ tabs' = TabsAfterUpdate(written, tabId, t)
    /\ storage' = SaveTabs(TabsAfterUpdate(written, tabId, t))

\* the receive select of the view of session tabId changes to val: v-model
\* assigns config.rxSignalType, then onRxSignalTypeChange(val) runs
OnRxSignalTypeChange(tabId, val) ==
    /\ FindIndex(tabs, tabId) # 0
    /\ LET t == tabs[FindIndex(tabs, tabId)] IN
       UpdateConfig(tabId, [t EXCEPT !.rxSignalType = val,
                                     !.rxConfig = RxConfigAfter(t.rxConfig, val)])
    /\ last' = Last("onRxSignalTypeChange", 0, [tabId |-> tabId, val |-> val])
    /\ UNCHANGED <<channelVars, wsSocket, pendingCommands, telemetryVars,
                   callVars, wireVars, received, activeTabId,
                   connectedDeviceIds, devices, now, restarts, created,
                   atStop,
                   selectorDevices,
                   modalVars, viewVars>>

\* the arguments of setParams in the switch of onTxSignalTypeChange: freq
\* and bw in hundredths of a MHz, gain in dB
TxParams ==
    [n \in ProfileNames |->
        CASE n = "red_broadcast"  -> [freq |-> 43320, bw |-> 54, gain |-> -60]
          [] n = "red_jam_1"      -> [freq |-> 43220, bw |-> 104, gain |-> -10]
          [] n = "red_jam_2"      -> [freq |-> 43260, bw |-> 61, gain |-> 0]
          [] n = "red_jam_3"      -> [freq |-> 43320, bw |-> 44, gain |-> -10]
          [] n = "blue_broadcast" -> [freq |-> 43392, bw |-> 54, gain |-> -60]
          [] n = "blue_jam_1"     -> [freq |-> 43492, bw |-> 104, gain |-> -10]
          [] n = "blue_jam_2"     -> [freq |-> 43452, bw |-> 61, gain |-> 0]
          [] n = "blue_jam_3"     -> [freq |-> 43392, bw |-> 44, gain |-> -10]]

\* a finalGain with the sign turned
FinalGainNegated(gain) == 0 - gain

\* let finalGain = gain; if (finalGain > 0) finalGain = 0;
\* if (finalGain < -89) finalGain = -89
FinalGain(gain) ==
    LET g == IF gain > 0 THEN 0 ELSE gain IN
    IF g < -89 THEN -89 ELSE g

\* a setParams that leaves the bandwidth alone
SetParamsNoBandwidth(c, freq, bw, gain) ==
    [c EXCEPT !.centerFreq = MHz(freq), !.gain = FinalGain(gain)]

\* setParams(freq, bw, gain), applied to config.value.txConfig
SetParams(c, freq, bw, gain) ==
    [c EXCEPT !.centerFreq = MHz(freq), !.bandwidth = MHz(bw),
              !.gain = FinalGain(gain)]

\* onTxSignalTypeChange, the switch
TxConfigAfter(c, val) ==
    IF val \in DOMAIN TxParams
    THEN SetParams(c, TxParams[val].freq, TxParams[val].bw, TxParams[val].gain)
    ELSE c

\* the transmit select of the view of session tabId changes to val: v-model
\* assigns config.txSignalType, then onTxSignalTypeChange(val) runs
OnTxSignalTypeChange(tabId, val) ==
    /\ FindIndex(tabs, tabId) # 0
    /\ LET t == tabs[FindIndex(tabs, tabId)] IN
       UpdateConfig(tabId, [t EXCEPT !.txSignalType = val,
                                     !.txConfig = TxConfigAfter(t.txConfig, val)])
    /\ last' = Last("onTxSignalTypeChange", 0, [tabId |-> tabId, val |-> val])
    /\ UNCHANGED <<channelVars, wsSocket, pendingCommands, telemetryVars,
                   callVars, wireVars, received, activeTabId,
                   connectedDeviceIds, devices, now, restarts, created,
                   atStop,
                   selectorDevices,
                   modalVars, viewVars>>

\* the receive gain input (:min="0" :max="73") changes to v: v-model assigns
\* config.rxConfig.gain, then updateConfig() runs
OnRxGainChange(tabId, v) ==
    /\ FindIndex(tabs, tabId) # 0
    /\ LET t == tabs[FindIndex(tabs, tabId)] IN
       UpdateConfig(tabId, [t EXCEPT !.rxConfig.gain = v])
    /\ last' = Last("onRxGainChange", 0, [tabId |-> tabId, val |-> v])
    /\ UNCHANGED <<channelVars, wsSocket, pendingCommands, telemetryVars,
                   callVars, wireVars, received, activeTabId,
                   connectedDeviceIds, devices, now, restarts, created,
                   atStop,
                   selectorDevices,
                   modalVars, viewVars>>

\* the transmit power input (:min="-89" :max="0", disabled unless the
\* transmit select shows custom) changes to v: v-model assigns
\* config.txConfig.gain, then updateConfig() runs
OnTxGainChange(tabId, v) ==
    /\ FindIndex(tabs, tabId) # 0
    /\ tabs[FindIndex(tabs, tabId)].txSignalType = "custom"
    /\ LET t == tabs[FindIndex(tabs, tabId)] IN
       UpdateConfig(tabId, [t EXCEPT !.txConfig.gain = v])
    /\ last' = Last("onTxGainChange", 0, [tabId |-> tabId, val |-> v])
    /\ UNCHANGED <<channelVars, wsSocket, pendingCommands, telemetryVars,
                   callVars, wireVars, received, activeTabId,
                   connectedDeviceIds, devices, now, restarts, created,
                   atStop,
                   selectorDevices,
                   modalVars, viewVars>>

\* :disabled="config.txSignalType !== 'custom'" of the transmit frequency,
\* power and bandwidth inputs
TxLocked(t) == t.txSignalType # "custom"

\* the clock advances (Date.now() is read in milliseconds)
Tick ==
    /\ now < MaxClock
    /\ now' = now + 1
    /\ last' = Last("tick", 0, EmptyMsg)
    /\ UNCHANGED <<channelVars, wsSocket, pendingCommands, telemetryVars,
                   callVars, wireVars, received, tabs, activeTabId,
                   connectedDeviceIds, devices, storage, restarts, created,
                   atStop,
                   selectorDevices,
                   modalVars, viewVars>>

(***************************************************************************)
(* The broadcast payload dialog: the operator's inputs.                    *)
(***************************************************************************)
\* what an operator's input to the dialog leaves alone
ModalFrame ==
    UNCHANGED <<channelVars, wsSocket, pendingCommands, telemetryVars,
                sessionVars, callVars, wireVars, viewVars, received>>

\* openBroadcastConfig: the parent shows the dialog
OpenBroadcastConfig ==
    /\ modalInputs < MaxInputs
    /\ ~broadcastModalVisible
    /\ broadcastModalVisible' = TRUE
    /\ modalInputs' = modalInputs + 1
    /\ last' = Last("openBroadcastConfig", 0, EmptyMsg)
    /\ ModalFrame
    /\ UNCHANGED <<activeTab, manualHex, form0A01, form0A02, form0A04,
                   form0A05, modelValue>>

\* a-tabs v-model:activeKey
SelectTab(key) ==
    /\ modalInputs < MaxInputs
    /\ broadcastModalVisible
    /\ key # activeTab
    /\ activeTab' = key
    /\ modalInputs' = modalInputs + 1
    /\ last' = Last("selectTab", 0, [key |-> key])
    /\ ModalFrame
    /\ UNCHANGED <<manualHex, form0A01, form0A02, form0A04, form0A05,
                   broadcastModalVisible, modelValue>>

\* an a-input-number of the position pane
SetForm0A01(field, x) ==
    /\ modalInputs < MaxInputs
    /\ broadcastModalVisible
    /\ activeTab = "0x0A01"
    /\ form0A01[field] # x
    /\ form0A01' = [form0A01 EXCEPT ![field] = x]
    /\ modalInputs' = modalInputs + 1
    /\ last' = Last("setForm0A01", 0, [field |-> field, val |-> x])
    /\ ModalFrame
    /\ UNCHANGED <<activeTab, manualHex, form0A02, form0A04, form0A05,
                   broadcastModalVisible, modelValue>>

\* an a-input-number of the health pane
SetForm0A02(field, x) ==
    /\ modalInputs < MaxInputs
    /\ broadcastModalVisible
    /\ activeTab = "0x0A02"
    /\ form0A02[field] # x
    /\ form0A02' = [form0A02 EXCEPT ![field] = x]
    /\ modalInputs' = modalInputs + 1
    /\ last' = Last("setForm0A02", 0, [field |-> field, val |-> x])
    /\ ModalFrame
    /\ UNCHANGED <<activeTab, manualHex, form0A01, form0A04, form0A05,
                   broadcastModalVisible, modelValue>>

\* the a-input-number (gold) or an a-checkbox of the match status pane
SetForm0A04(field, x) ==
    /\ modalInputs < MaxInputs
    /\ broadcastModalVisible
    /\ activeTab = "0x0A04"
    /\ form0A04[field] # x
    /\ form0A04' = [form0A04 EXCEPT ![field] = x]
    /\ modalInputs' = modalInputs + 1
    /\ last' = Last("setForm0A04", 0, [field |-> field, val |-> x])
    /\ ModalFrame
    /\ UNCHANGED <<activeTab, manualHex, form0A01, form0A02, form0A05,
                   broadcastModalVisible, modelValue>>

\* an a-input-number of the buff pane
SetForm0A05(unit, field, x) ==
    /\ modalInputs < MaxInputs
    /\ broadcastModalVisible
    /\ activeTab = "0x0A05"
    /\ form0A05[unit][field] # x
    /\ form0A05' = [form0A05 EXCEPT ![unit][field] = x]
    /\ modalInputs' = modalInputs + 1
    /\ last' = Last("setForm0A05", 0,
                    [unit |-> unit, field |-> field, val |-> x])
    /\ ModalFrame
    /\ UNCHANGED <<activeTab, manualHex, form0A01, form0A02, form0A04,
                   broadcastModalVisible, modelValue>>

\* the a-textarea of the raw pane
SetManualHex(str) ==
    /\ modalInputs < MaxInputs
    /\ broadcastModalVisible
    /\ activeTab = "raw"
    /\ manualHex # str
    /\ manualHex' = str
    /\ modalInputs' = modalInputs + 1
    /\ last' = Last("setManualHex", 0, [val |-> str])
    /\ ModalFrame
    /\ UNCHANGED <<activeTab, form0A01, form0A02, form0A04, form0A05,
                   broadcastModalVisible, modelValue>>

HandleOkClearing ==
    /\ broadcastModalVisible
    /\ modelValue' = Str(generatedPayload)
    /\ broadcastModalVisible' = FALSE
    /\ form0A01' = ModalSetup.form0A01
    /\ last' = Last("handleOk", 0, EmptyMsg)
    /\ ModalFrame
    /\ UNCHANGED <<activeTab, manualHex, form0A02, form0A04, form0A05,
                   modalInputs>>

\* handleOk: emit('update:modelValue', generatedPayload.value), then
\* 'confirm', then 'update:visible' with false
HandleOk ==
    /\ broadcastModalVisible
    /\ modelValue' = Str(generatedPayload)
    /\ broadcastModalVisible' = FALSE
    /\ last' = Last("handleOk", 0, EmptyMsg)
    /\ ModalFrame
    /\ UNCHANGED <<activeTab, manualHex, form0A01, form0A02, form0A04,
                   form0A05, modalInputs>>

\* handleCancel
HandleCancel ==
    /\ broadcastModalVisible
    /\ broadcastModalVisible' = FALSE
    /\ last' = Last("handleCancel", 0, EmptyMsg)
    /\ ModalFrame
    /\ UNCHANGED <<activeTab, manualHex, form0A01, form0A02, form0A04,
                   form0A05, modelValue, modalInputs>>

\* The process stops and starts again: the store and the composable are set
\* up anew; localStorage and the clock are outside the process.
Restart ==
    /\ restarts < MaxRestarts
    /\ restarts' = restarts + 1
    /\ atStop' = storage
    /\ selectorDevices' = Arr(<<>>)
    /\ activeTab' = "0x0A01"
    /\ manualHex' = <<>>
    /\ form0A01' = ModalSetup.form0A01
    /\ form0A02' = ModalSetup.form0A02
    /\ form0A04' = ModalSetup.form0A04
    /\ form0A05' = ModalSetup.form0A05
    /\ broadcastModalVisible' = FALSE
    /\ modelValue' = Undefined
    /\ modalInputs' = 0
    /\ txEnabled' = {}
    /\ resumed' = {}
    /\ socket' = 0
    /\ readyState' = [s \in Sockets |-> "UNUSED"]
    /\ onmessage' = [s \in Sockets |-> "none"]
    /\ isConnected' = FALSE
    /\ reconnectTimer' = FALSE
    /\ pingInterval' = FALSE
    /\ lifecycle' = "created"
    /\ wsSocket' = 0
    /\ pendingCommands' = [c \in CmdNames |-> 0]
    /\ spectrums' = [d \in Devices |-> NoSpectrum]
    /\ runtimeStatus' = [d \in Devices |-> NoStatus]
    /\ decodedPackets' = <<>>
    /\ txSpectrums' = [d \in Devices |-> NoSpectrum]
    /\ nCalls' = 0
    /\ callCmd' = [k \in Calls |-> ""]
    /\ timer' = [k \in Calls |-> FALSE]
    /\ resolveCount' = [k \in Calls |-> 0]
    /\ result' = [k \in Calls |-> NoResult]
    /\ caller' = [k \in Calls |-> NoCaller]
    /\ sentOn' = [k \in Calls |-> 0]
    /\ answered' = [k \in Calls |-> FALSE]
    /\ replaced' = [k \in Calls |-> 0]
    /\ received' = <<>>
    /\ tabs' = <<>>
    /\ activeTabId' = NoTabId
    /\ connectedDeviceIds' = <<>>
    /\ devices' = <<>>
    /\ created' = <<>>
    /\ last' = Last("restart", 0, EmptyMsg)
    /\ UNCHANGED <<storage, now>>

(***************************************************************************)
(* The store: the command correlator.                                      *)
(***************************************************************************)
\* pendingCommands.get(cmdKey)
PendingGet(cmdKey) ==
    IF cmdKey.t = "string" /\ cmdKey.v \in CmdNames
    THEN pendingCommands[cmdKey.v] ELSE 0

\* pendingCommands.delete(name)
PendingDelete(pc, name) ==
    [c \in CmdNames |-> IF c = name THEN 0 ELSE pc[c]]

\* pendingCommands.set(cmd, resolver of call k)
PendingSet(pc, cmd, k) ==
    [c \in CmdNames |-> IF c = cmd THEN k ELSE pc[c]]

\* the promise's resolve(response): only the first invocation settles it
Resolve(k, response) ==
    /\ resolveCount' = [resolveCount EXCEPT ![k] = @ + 1]
    /\ result' = [result EXCEPT ![k] =
                     IF @ = NoResult THEN response ELSE @]

\* a resolver that does not clear its timeout
TimerKeptArmed(k) == timer

\* clearTimeout(timeout) of call k's resolver
TimerAfterResolver(k) == [timer EXCEPT ![k] = FALSE]

\* the resolver sendCommand registers for call k: clearTimeout; resolve
Resolver(k, response) ==
    /\ timer' = TimerAfterResolver(k)
    /\ Resolve(k, response)

\* a check that the channel is registered, not that it is open
NotRegistered == wsSocket = 0

\* !wsSocket.value || wsSocket.value.readyState !== WebSocket.OPEN
NotConnected == wsSocket = 0 \/ readyState[wsSocket] # "OPEN"

\* the timeout callback deletes the entry of its command name
PendingAfterTimeout(k) == PendingDelete(pendingCommands, callCmd[k])

\* res.data.frequencies, res.data.power
DataField(data, f) ==
    IF data.t = "object" /\ f \in DOMAIN data.v THEN data.v[f] ELSE Undefined

\* toggleStream after its await: if (result.success) updateTabConfig(
\* props.tabId, { isStreaming: !currentState })
ToggleStreamContinue(c, res) ==
    IF Truthy(res.success)
    THEN /\ tabs' = TabsAfterUpdate(tabs, c.tabId,
                                    [isStreaming |-> ~c.currentState])
         /\ storage' = StorageAfterUpdate(tabs, c.tabId,
                                          [isStreaming |-> ~c.currentState])
    ELSE UNCHANGED <<tabs, storage>>

\* a preview stored whatever the response says
TxPreviewGuardAlways(res) == TRUE

\* startTxSignal: if (res.success && res.data)
TxPreviewGuard(res) == Truthy(res.success) /\ Truthy(res.data)

\* startTxSignal after its await: the preview spectrum of the device
TxSpectrumsAfter(c, res) ==
    IF TxPreviewGuard(res)
    THEN [txSpectrums EXCEPT ![c.deviceId] =
             [frequencies |-> DataField(res.data, "frequencies"),
              power |-> DataField(res.data, "power")]]
    ELSE txSpectrums

\* scanDevices after its await: if (result.success && result.data)
\* devices.value = result.data; else the error is logged
DevicesAfterScan(res) ==
    IF Truthy(res.success) /\ Truthy(res.data) THEN res.data
    ELSE selectorDevices

\* The code that awaits a promise runs when the promise settles, before
\* the next event is handled: c is what awaits it, res what it settled with.
ContinueAs(c, res) ==
    /\ IF c.kind = "toggleStream"
       THEN ToggleStreamContinue(c, res)
       ELSE UNCHANGED <<tabs, storage>>
    /\ txSpectrums' = IF c.kind = "startTxSignal"
                      THEN TxSpectrumsAfter(c, res) ELSE txSpectrums
    /\ selectorDevices' = IF c.kind = "scanDevices"
                          THEN DevicesAfterScan(res) ELSE selectorDevices
    /\ UNCHANGED <<activeTabId, connectedDeviceIds, devices, now, restarts,
                   created, atStop, modalVars>>

\* resolve of call k is invoked with res (k = 0: of no call); a promise
\* that is settled already does not run its continuation again
Continue(k, res) ==
    /\ ContinueAs(IF k = 0 \/ result[k] # NoResult THEN NoCaller
                  ELSE caller[k], res)
    /\ UNCHANGED viewVars

\* sendCommand(cmd, params), awaited by c, while fewer than cap calls were
\* issued
IssueBy(cmd, c, cap) ==
    /\ nCalls < cap
    /\ LET k == nCalls + 1 IN
       /\ nCalls' = k
       /\ callCmd' = [callCmd EXCEPT ![k] = cmd]
       /\ caller' = [caller EXCEPT ![k] = c]
       /\ IF NotConnected
          THEN /\ Resolve(k, CommandResponse(cmd, FALSE, Null,
                                             Str(NotConnectedError)))
               /\ ContinueAs(c, CommandResponse(cmd, FALSE, Null,
                                                Str(NotConnectedError)))
               /\ UNCHANGED <<timer, pendingCommands, sentOn, replaced>>
          ELSE /\ timer' = [timer EXCEPT ![k] = TRUE]
               /\ pendingCommands' = PendingSet(pendingCommands, cmd, k)
               /\ sentOn' = [sentOn EXCEPT ![k] = wsSocket]
               /\ replaced' = [replaced EXCEPT ![k] = pendingCommands[cmd]]
               /\ UNCHANGED <<resolveCount, result, sessionVars, txSpectrums,
                   modalVars>>
       /\ last' = Last("sendCommand", k, EmptyMsg)
    /\ UNCHANGED <<channelVars, wsSocket, spectrums, runtimeStatus,
                   decodedPackets, answered, received>>

\* sendCommand(cmd, params), awaited by c, from code that is not the
\* continuation of an earlier await
Issue(cmd, c) == IssueBy(cmd, c, MaxCalls) /\ UNCHANGED viewVars

\* sendCommand(cmd, params) from code that does nothing with the session
\* list or the previews afterwards
SendCommand(cmd) == Issue(cmd, NoCaller)

\* toggleStream() of the view of session tabId
ToggleStream(tabId) ==
    /\ FindIndex(tabs, tabId) # 0
    /\ LET currentState == tabs[FindIndex(tabs, tabId)].isStreaming IN
       Issue(IF currentState THEN "stop_streaming" ELSE "start_streaming",
             [kind |-> "toggleStream", tabId |-> tabId,
              currentState |-> currentState, deviceId |-> ""])

\* scanDevices() of the device selector
ScanDevices ==
    Issue("scan_devices",
          [kind |-> "scanDevices", tabId |-> <<"", 0>>,
           currentState |-> FALSE, deviceId |-> ""])

\* startTxSignal(deviceId, signalType, payload)
StartTxSignal(deviceId) ==
    Issue("start_tx_signal",
          [kind |-> "startTxSignal", tabId |-> <<"", 0>>,
           currentState |-> FALSE, deviceId |-> deviceId])

(***************************************************************************)
(* enableTx of the session view (RadarProgress.vue): two awaits in a row.  *)
(* What follows an await runs as a step of its own, ResumeEnableTx, before *)
(* any other event is handled.                                             *)
(***************************************************************************)
\* enableTx(): if (!config.value) return; the button is disabled while
\* txEnabled; await store.sendCommand('configure_device', ...)
EnableTx(tabId) ==
    /\ FindIndex(tabs, tabId) # 0
    /\ tabId \notin txEnabled
    /\ Issue("configure_device",
             [kind |-> "enableTx", tabId |-> tabId, currentState |-> FALSE,
              deviceId |-> tabs[FindIndex(tabs, tabId)].deviceId])

\* call k is awaited by enableTx, its promise is settled and enableTx has
\* not gone on yet
Resumable(k) ==
    /\ k <= nCalls
    /\ caller[k].kind = "enableTx"
    /\ result[k] # NoResult
    /\ k \notin resumed

Runnable == \E k \in Calls : Resumable(k)

\* if (result.success)
EnableSucceededAlways(res) == TRUE
EnableSucceeded(res) == Truthy(res.success)

\* if (config.value.txSignalType !== 'custom'), then
\* config.value.txSignalType.includes(...): a session without a profile
\* ("": the field is absent) makes the second line throw
SendsSignal(ts, tabId) ==
    /\ FindIndex(ts, tabId) # 0
    /\ ts[FindIndex(ts, tabId)].txSignalType \notin {"custom", ""}

\* enableTx ends here without a command
EnableTxEnds(k) ==
    /\ last' = Last("enableTx", k, EmptyMsg)
    /\ UNCHANGED <<channelVars, wsSocket, pendingCommands, telemetryVars,
                   sessionVars, callVars, wireVars, received, modalVars>>

\* enableTx goes on after the await of call k
ResumeEnableTx(k) ==
    /\ Resumable(k)
    /\ resumed' = resumed \cup {k}
    /\ LET c == caller[k]
           i == FindIndex(tabs, c.tabId)
       IN  IF callCmd[k] = "configure_device"
           THEN /\ UNCHANGED txEnabled
                /\ IF i # 0
                   THEN IssueBy("enable_tx",
                                [c EXCEPT !.deviceId = tabs[i].deviceId],
                                MaxCalls + MaxFollowUps)
                   ELSE EnableTxEnds(k)
           ELSE IF EnableSucceeded(result[k])
           THEN /\ txEnabled' = txEnabled \cup {c.tabId}
                /\ IF SendsSignal(tabs, c.tabId)
                   THEN IssueBy("start_tx_signal",
                                [kind |-> "startTxSignal",
                                 tabId |-> <<"", 0>>,
                                 currentState |-> FALSE,
                                 deviceId |-> tabs[i].deviceId],
                                MaxCalls + MaxFollowUps)
                   ELSE EnableTxEnds(k)
           ELSE /\ UNCHANGED txEnabled
                /\ EnableTxEnds(k)

\* Timers of equal delay fire in the order they were armed.
TimerDue(k) == timer[k] /\ \A j \in Calls : j < k => ~timer[j]

\* the setTimeout callback of call k, 10 s after sendCommand
Timeout(k) ==
    /\ TimerDue(k)
    /\ timer' = [timer EXCEPT ![k] = FALSE]
    /\ pendingCommands' = PendingAfterTimeout(k)
    /\ Resolve(k, CommandResponse(callCmd[k], FALSE, Null, Str(TimeoutError)))
    /\ Continue(k, CommandResponse(callCmd[k], FALSE, Null, Str(TimeoutError)))
    /\ last' = Last("timeout", k, EmptyMsg)
    /\ UNCHANGED <<channelVars, wsSocket, spectrums, runtimeStatus,
                   decodedPackets, nCalls, callCmd, caller, wireVars, received>>

(***************************************************************************)
(* The inbound handlers.                                                   *)
(***************************************************************************)
\* the store's ws.onmessage: what it does to the correlator
StoreCorrelate(msg) ==
    LET r == IF Truthy(msg.cmd) THEN PendingGet(msg.cmd) ELSE 0
    IN  IF r # 0
        THEN /\ Resolver(r, msg)
             /\ pendingCommands' = PendingDelete(pendingCommands, msg.cmd.v)
        ELSE UNCHANGED <<timer, resolveCount, result, pendingCommands>>

\* msg.type === name
TypeIs(msg, name) == msg.type = Str(name)

\* the store's ws.onmessage: the spectrums map after the frame
StoreSpectrums(msg) ==
    LET s1 == IF TypeIs(msg, "spectrum")
              THEN UpdateSpectrums(spectrums, SpectrumArgs(msg))
              ELSE spectrums
    IN  IF msg.cmd = Str("spectrum") /\ Truthy(msg.data)
        THEN UpdateSpectrums(s1, DataArgs(msg.data))
        ELSE s1

\* updateStatus(newStatus): its body tests newStatus.connected and assigns
\* nothing (the assignment is commented out)
UpdateStatus(rs, newStatus) == rs

\* the store's ws.onmessage: the runtimeStatus map after the frame
StoreRuntimeStatus(msg) ==
    LET s1 == IF TypeIs(msg, "spectrum")
              THEN UpdateRuntimeStatus(runtimeStatus, SpectrumArgs(msg))
              ELSE IF TypeIs(msg, "status")
              THEN UpdateStatus(runtimeStatus, msg)
              ELSE runtimeStatus
    IN  IF msg.cmd = Str("spectrum") /\ Truthy(msg.data)
        THEN UpdateRuntimeStatus(s1, DataArgs(msg.data))
        ELSE IF msg.cmd = Str("status") /\ Truthy(msg.data)
        THEN UpdateStatus(s1, msg.data.v)
        ELSE s1

\* a packet queued for a frame of any type
StorePacketsAnyType(msg) == AddDecodedPacket(decodedPackets, PacketArgs(msg))

\* the store's ws.onmessage: the packet queue after the frame
StorePackets(msg) ==
    IF TypeIs(msg, "packet")
    THEN AddDecodedPacket(decodedPackets, PacketArgs(msg))
    ELSE decodedPackets

\* a frame taken for parsed whatever its text
ParsedLenient(msg) == TRUE

\* const msg = JSON.parse(event.data) returns (it throws on a text that is
\* no JSON text, and the handler's catch block only logs)
Parsed(msg) == msg.parseable

\* the handler setWebSocket installs
StoreOnMessage(msg) ==
    IF ~Parsed(msg)
    THEN UNCHANGED <<timer, resolveCount, result, pendingCommands,
                     spectrums, runtimeStatus, decodedPackets>>
    ELSE /\ StoreCorrelate(msg)
         /\ spectrums' = StoreSpectrums(msg)
         /\ runtimeStatus' = StoreRuntimeStatus(msg)
         /\ decodedPackets' = StorePackets(msg)

\* the handler connect() installs when it creates the WebSocket
ComposableOnMessage(msg) ==
    /\ UNCHANGED <<timer, resolveCount, result, pendingCommands>>
    /\ IF ~Parsed(msg) \/ TypeIs(msg, "pong") \/ TypeIs(msg, "ping")
       THEN UNCHANGED <<spectrums, runtimeStatus, decodedPackets>>
       ELSE /\ spectrums' =
                 IF TypeIs(msg, "spectrum")
                 THEN UpdateSpectrums(spectrums, ComposableSpectrumArgs(msg))
                 ELSE spectrums
            /\ runtimeStatus' =
                 IF TypeIs(msg, "spectrum")
                 THEN UpdateRuntimeStatus(runtimeStatus,
                                          ComposableSpectrumArgs(msg))
                 ELSE IF TypeIs(msg, "status")
                 THEN UpdateStatus(runtimeStatus, msg.data)
                 ELSE runtimeStatus
            /\ decodedPackets' = StorePackets(msg)

\* the call whose resolver the handler installed on s invokes for msg
ResolvedBy(s, msg) ==
    IF onmessage[s] = "store" /\ Parsed(msg) /\ Truthy(msg.cmd)
    THEN PendingGet(msg.cmd) ELSE 0

\* a message event on WebSocket s runs the handler installed on it
Deliver(s, msg) ==
    /\ readyState[s] = "OPEN"
    /\ IF onmessage[s] = "store" THEN StoreOnMessage(msg)
       ELSE ComposableOnMessage(msg)
    /\ Continue(ResolvedBy(s, msg), msg)
    /\ last' = Last("onmessage", s, msg)
    /\ UNCHANGED <<channelVars, wsSocket, nCalls, callCmd, caller>>

(***************************************************************************)
(* The channel owner (useWebSocket.ts).                                    *)
(***************************************************************************)
SocketsUsed == Cardinality({s \in Sockets : readyState[s] # "UNUSED"})

\* connect(): a new WebSocket with the composable's handlers
Connect ==
    /\ SocketsUsed < MaxSockets
    /\ LET s == SocketsUsed + 1 IN
       /\ socket' = s
       /\ readyState' = [readyState EXCEPT ![s] = "CONNECTING"]
       /\ onmessage' = [onmessage EXCEPT ![s] = "composable"]

OnMounted ==
    /\ lifecycle = "created"
    /\ lifecycle' = "mounted"
    /\ Connect
    /\ last' = Last("onMounted", 0, EmptyMsg)
    /\ UNCHANGED <<isConnected, reconnectTimer, pingInterval, wsSocket,
                   pendingCommands, telemetryVars, sessionVars, callVars,
                   wireVars, received,
                   modalVars, viewVars>>

\* socket.onopen: store.setWebSocket(socket.value) and the heartbeat
OnOpen(s) ==
    /\ readyState[s] = "CONNECTING"
    /\ readyState' = [readyState EXCEPT ![s] = "OPEN"]
    /\ isConnected' = TRUE
    /\ IF socket # 0
       THEN /\ wsSocket' = socket
            /\ onmessage' = [onmessage EXCEPT ![socket] = "store"]
       ELSE UNCHANGED <<wsSocket, onmessage>>
    /\ pingInterval' = TRUE
    /\ last' = Last("onopen", s, EmptyMsg)
    /\ UNCHANGED <<socket, reconnectTimer, lifecycle, pendingCommands,
                   telemetryVars, sessionVars, callVars, wireVars, received,
                   modalVars, viewVars>>

\* the connection fails, drops or finishes the closing that close()
\* started; socket.onclose arms the reconnect timer
OnClose(s) ==
    /\ readyState[s] \in {"CONNECTING", "OPEN", "CLOSING"}
    /\ readyState' = [readyState EXCEPT ![s] = "CLOSED"]
    /\ isConnected' = FALSE
    /\ pingInterval' = FALSE
    /\ reconnectTimer' = TRUE
    /\ last' = Last("onclose", s, EmptyMsg)
    /\ UNCHANGED <<socket, onmessage, lifecycle, wsSocket, pendingCommands,
                   telemetryVars, sessionVars, callVars, wireVars, received,
                   modalVars, viewVars>>

\* socket.close(): the connection starts closing, its close event comes
\* later
ReadyStateAfterClose(rs, s) ==
    IF s # 0 /\ rs[s] \in {"CONNECTING", "OPEN"}
    THEN [rs EXCEPT ![s] = "CLOSING"]
    ELSE rs

\* onUnmounted: clearInterval(pingInterval); if (socket.value)
\* socket.value.close(); clearTimeout(reconnectTimer)
OnUnmounted ==
    /\ lifecycle = "mounted"
    /\ lifecycle' = "unmounted"
    /\ pingInterval' = FALSE
    /\ readyState' = ReadyStateAfterClose(readyState, socket)
    /\ reconnectTimer' = FALSE
    /\ last' = Last("onUnmounted", 0, EmptyMsg)
    /\ UNCHANGED <<socket, onmessage, isConnected, wsSocket, pendingCommands,
                   telemetryVars, sessionVars, callVars, wireVars, received,
                   modalVars, viewVars>>

\* the reconnect timeout, 3 s after onclose
Reconnect ==
    /\ reconnectTimer
    /\ reconnectTimer' = FALSE
    /\ Connect
    /\ last' = Last("reconnect", 0, EmptyMsg)
    /\ UNCHANGED <<isConnected, pingInterval, lifecycle, wsSocket,
                   pendingCommands, telemetryVars, sessionVars, callVars,
                   wireVars, received,
                   modalVars, viewVars>>

(***************************************************************************)
(* The remote peer.                                                        *)
(***************************************************************************)
\* success, data and error of the responses the peer may give
PeerPayloads ==
    { [success |-> TRUE, data |-> Str("done"), error |-> Null],
      [success |-> FALSE, data |-> Null, error |-> Str("peer error")] }

ResponseFrame(k, p) ==
    [CommandResponse(callCmd[k], p.success, p.data, p.error) EXCEPT !.req = k]

\* The peer answers the request of call k, once, on the connection the
\* request came in on, and the frame is handled.
PeerRespond(k, p) ==
    /\ sentOn[k] # 0
    /\ ~answered[k]
    /\ answered' = [answered EXCEPT ![k] = TRUE]
    /\ Deliver(sentOn[k], ResponseFrame(k, p))
    /\ UNCHANGED <<sentOn, replaced, received>>

\* a spectrum broadcast: { type: 'spectrum', device_id, frequencies, power,
\* overflow?, underflow? }
SpectrumFrame(d, fr, pw, o, u) ==
    [EmptyMsg EXCEPT !.type = Str("spectrum"), !.device_id = d,
                     !.frequencies = fr, !.power = pw,
                     !.overflow = o, !.underflow = u]

\* the older wire form of a spectrum broadcast: { cmd: 'spectrum', data }
LegacySpectrumFrame(d, fr, pw, o, u) ==
    [EmptyMsg EXCEPT !.cmd = Str("spectrum"),
                     !.data = Obj([frequencies |-> fr, power |-> pw,
                                   device_id |-> d, overflow |-> o,
                                   underflow |-> u])]

\* a packet broadcast: { type: 'packet', device_id, timestamp, hex,
\* packet_type, is_valid }
PacketFrame(n, d, valid) ==
    [EmptyMsg EXCEPT !.type = Str("packet"), !.device_id = Str(d),
                     !.timestamp = Num(n), !.hex = Str("A5"),
                     !.packet_type = Str("0x0A01"), !.is_valid = Bool(valid)]

\* what the frames of the telemetry specification carry
DeviceIdValues == {Undefined, Str(""), Str(DevA), Str(DevB)}
FrequencyValues == {Undefined, Arr(<<433>>), Arr(<<434>>)}
PowerValues == {Undefined, Arr(<<-70>>)}
OverflowValues == {Undefined, Bool(TRUE), Bool(FALSE), Num(1)}
UnderflowValues == {Undefined, Bool(TRUE), Bool(FALSE)}

\* frames that carry a spectrum, or part of one, and no flags; and frames
\* that carry a spectrum and flags
SpectrumFrames ==
    { SpectrumFrame(d, fr, pw, Undefined, Undefined) :
        d \in DeviceIdValues, fr \in FrequencyValues, pw \in PowerValues }
    \cup
    { SpectrumFrame(d, Arr(<<433>>), Arr(<<-70>>), o, u) :
        d \in DeviceIdValues \ {Str("")},
        o \in OverflowValues, u \in UnderflowValues }

LegacySpectrumFrames ==
    { LegacySpectrumFrame(d, fr, Arr(<<-70>>), o, Undefined) :
        d \in {Undefined, Str(DevA)},
        fr \in {Undefined, Arr(<<434>>)}, o \in {Undefined, Bool(TRUE)} }

\* a status broadcast: { type: 'status', device_id, overflow?, underflow? }
StatusFrame(d, o, u) ==
    [EmptyMsg EXCEPT !.type = Str("status"), !.device_id = Str(d),
                     !.overflow = o, !.underflow = u]

\* the older wire form of a status broadcast: { cmd: 'status', data }
LegacyStatusFrame(d, o, u) ==
    [EmptyMsg EXCEPT !.cmd = Str("status"),
                     !.data = Obj([device_id |-> Str(d), overflow |-> o,
                                   underflow |-> u])]

StatusFrames ==
    { StatusFrame(d, o, u) :
        d \in Devices, o \in {Undefined, Bool(TRUE), Bool(FALSE)},
        u \in {Undefined, Bool(TRUE), Bool(FALSE)} }
    \cup
    { LegacyStatusFrame(d, Bool(TRUE), Undefined) : d \in Devices }

\* spectrum frames that report flags, one per device and flag value
FlagFrames ==
    { SpectrumFrame(Str(d), Arr(<<433>>), Arr(<<-70>>), Bool(b), Bool(~b)) :
        d \in Devices, b \in BOOLEAN }

\* an unsolicited frame (a broadcast) arrives on WebSocket s
PeerBroadcast(s, msg) ==
    /\ Deliver(s, msg)
    /\ UNCHANGED <<wireVars, received>>

\* The next packet frame: its timestamp is its arrival number; the first
\* MixLen frames are for either device, the later ones for DevA.
PeerPacket(s, d, valid) ==
    /\ Len(received) < MAX_PACKETS + MaxOverrun
    /\ Len(received) >= MixLen => (d = DevA /\ valid)
    /\ LET msg == PacketFrame(Len(received) + 1, d, valid) IN
       /\ Deliver(s, msg)
       /\ received' = Append(received, msg)
    /\ UNCHANGED wireVars

(***************************************************************************)
(* Spec: the command correlator and the channel.                           *)
(***************************************************************************)
Next ==
    \/ OnMounted
    \/ \E s \in Sockets : OnOpen(s)
    \/ \E s \in Sockets : OnClose(s)
    \/ Reconnect
    \/ \E c \in DeviceCmds : SendCommand(c)
    \/ \E k \in Calls : Timeout(k)
    \/ \E k \in Calls, p \in PeerPayloads : PeerRespond(k, p)
    \/ \E s \in Sockets :
          PeerBroadcast(s, LegacySpectrumFrame(Str(DevA), Arr(<<433>>),
                                               Arr(<<-70>>), Undefined,
                                               Undefined))

Spec == Init /\ [][Next]_vars

\* The command path alone: broadcasts assign only the telemetry state and
\* carry no name in DeviceCmds, so they neither resolve nor delay a call.
NextCommands ==
    \/ OnMounted
    \/ \E s \in Sockets : OnOpen(s)
    \/ \E s \in Sockets : OnClose(s)
    \/ Reconnect
    \/ \E c \in DeviceCmds : SendCommand(c)
    \/ \E k \in Calls : Timeout(k)
    \/ \E k \in Calls, p \in PeerPayloads : PeerRespond(k, p)

\* A timer that is armed fires: the event loop runs every due callback.
LiveSpec ==
    Init /\ [][NextCommands]_vars
         /\ \A k \in HandlerCalls : WF_vars(Timeout(k))

(***************************************************************************)
(* TelemetrySpec: spectrum broadcasts on an open channel.                  *)
(***************************************************************************)
NextTelemetry ==
    \/ OnMounted
    \/ \E s \in Sockets : OnOpen(s)
    \/ \E s \in Sockets, m \in SpectrumFrames \cup LegacySpectrumFrames :
          PeerBroadcast(s, m)

TelemetrySpec == Init /\ [][NextTelemetry]_vars

(***************************************************************************)
(* PacketSpec: packet broadcasts on an open channel.                       *)
(***************************************************************************)
NextPacket ==
    \/ OnMounted
    \/ \E s \in Sockets : OnOpen(s)
    \/ \E s \in Sockets, d \in Devices, valid \in BOOLEAN :
          PeerPacket(s, d, valid)

PacketSpec == Init /\ [][NextPacket]_vars

(***************************************************************************)
(* StatusSpec: status broadcasts, among spectrum broadcasts that report    *)
(* flags, on an open channel.                                              *)
(***************************************************************************)
NextStatus ==
    \/ OnMounted
    \/ \E s \in Sockets : OnOpen(s)
    \/ \E s \in Sockets, m \in StatusFrames \cup FlagFrames :
          PeerBroadcast(s, m)

StatusSpec == Init /\ [][NextStatus]_vars

(***************************************************************************)
(* SessionSpec: the operator's session intents and the clock.              *)
(***************************************************************************)
\* a partial update the configuration view applies to a session
ConfigUpdates ==
    { [mode |-> "tx", rxConfig |-> [DEFAULT_CONFIG EXCEPT !.gain = 30]] }

\* the views call createTab(device), without a name
CustomNames == {""}

Clock == 1..MaxClock
TabIds == { TabId(d, t) : d \in Devices, t \in Clock }

NextSession ==
    \/ \E d \in Devices, customName \in CustomNames :
          CreateTab(SDRDevice(d), customName)
    \/ \E id \in TabIds : RemoveTab(id)
    \/ \E id \in TabIds : SetActiveTab(id)
    \/ \E id \in TabIds, u \in ConfigUpdates : UpdateTabConfig(id, u)
    \/ Tick

SessionSpec == Init /\ [][NextSession]_vars

(***************************************************************************)
(* RestartSpec: sessions created, updated and removed across restarts of   *)
(* the process.                                                            *)
(***************************************************************************)
NextRestart ==
    \/ \E d \in Devices, customName \in CustomNames :
          CreateTab(SDRDevice(d), customName)
    \/ \E id \in TabIds : RemoveTab(id)
    \/ \E id \in TabIds, u \in ConfigUpdates : UpdateTabConfig(id, u)
    \/ Restart

RestartSpec == Init /\ [][NextRestart]_vars

(***************************************************************************)
(* ConfigSpec: configuration updates among spectrum broadcasts, across     *)
(* restarts of the process.                                                *)
(***************************************************************************)
NextConfig ==
    \/ OnMounted
    \/ \E s \in Sockets : OnOpen(s)
    \/ \E s \in Sockets, b \in BOOLEAN :
          PeerBroadcast(s, SpectrumFrame(Str(DevA), Arr(<<433>>),
                                         Arr(<<-70>>), Bool(b), Undefined))
    \/ \E d \in Devices, customName \in CustomNames :
          CreateTab(SDRDevice(d), customName)
    \/ \E id \in TabIds, u \in ConfigUpdates : UpdateTabConfig(id, u)
    \/ Restart

ConfigSpec == Init /\ [][NextConfig]_vars

(***************************************************************************)
(* StreamSpec: the views of the sessions start and stop streaming while    *)
(* sessions are created and removed.                                       *)
(***************************************************************************)
NextStream ==
    \/ OnMounted
    \/ \E s \in Sockets : OnOpen(s)
    \/ \E d \in Devices, customName \in CustomNames :
          CreateTab(SDRDevice(d), customName)
    \/ \E id \in TabIds : RemoveTab(id)
    \/ \E id \in TabIds : ToggleStream(id)
    \/ \E k \in Calls : Timeout(k)
    \/ \E k \in Calls, p \in PeerPayloads : PeerRespond(k, p)
    \/ Tick

StreamSpec == Init /\ [][NextStream]_vars

(***************************************************************************)
(* TxSpec: transmit signals are started, with and without a preview, and   *)
(* the peer answers with or without a spectrum.                            *)
(***************************************************************************)
\* success, data and error of the answers to start_tx_signal
TxPayloads ==
    { [success |-> TRUE,
       data |-> Obj([frequencies |-> Arr(<<433>>), power |-> Arr(<<-70>>)]),
       error |-> Null],
      [success |-> TRUE, data |-> Null, error |-> Null],
      [success |-> FALSE,
       data |-> Obj([frequencies |-> Arr(<<434>>), power |-> Arr(<<-70>>)]),
       error |-> Str("peer error")],
      [success |-> FALSE, data |-> Null, error |-> Str("peer error")] }

NextTx ==
    \/ OnMounted
    \/ \E s \in Sockets : OnOpen(s)
    \/ \E s \in Sockets : OnClose(s)
    \/ \E d \in Devices : StartTxSignal(d)
    \/ SendCommand("start_tx_signal")
    \/ \E k \in Calls : Timeout(k)
    \/ \E k \in Calls, p \in TxPayloads : PeerRespond(k, p)

TxSpec == Init /\ [][NextTx]_vars

(***************************************************************************)
(* ParseSpec: frames whose text is cut off arrive among whole frames and   *)
(* commands.                                                               *)
(***************************************************************************)
\* the frame whose text is a proper prefix of the text of m: JSON.parse
\* throws on it
Truncated(m) == [m EXCEPT !.parseable = FALSE]

\* whole frames: a spectrum with a flag and the answers to the commands of
\* the device list
WholeFrames ==
    { SpectrumFrame(Str(DevA), Arr(<<433>>), Arr(<<-70>>), Bool(TRUE),
                    Undefined) }
    \cup { CommandResponse(c, TRUE, Str("done"), Null) : c \in DeviceCmds }

BadFrames ==
    { Truncated(m) : m \in WholeFrames \cup {PacketFrame(1, DevA, TRUE)} }
    \cup {BadMsg}

NextParse ==
    \/ OnMounted
    \/ \E s \in Sockets : OnOpen(s)
    \/ \E c \in DeviceCmds : SendCommand(c)
    \/ \E k \in Calls : Timeout(k)
    \/ \E s \in Sockets, m \in WholeFrames \cup BadFrames : PeerBroadcast(s, m)
    \/ \E s \in Sockets : Len(received) < MixLen /\ PeerPacket(s, DevA, TRUE)

ParseSpec == Init /\ [][NextParse]_vars

(***************************************************************************)
(* DispatchSpec: broadcasts of every type arrive among commands and their  *)
(* answers.                                                                *)
(***************************************************************************)
\* frames with a type and no cmd
TypedBroadcasts ==
    { SpectrumFrame(Str(DevA), Arr(<<433>>), Arr(<<-70>>), Bool(TRUE),
                    Undefined),
      StatusFrame(DevA, Bool(TRUE), Undefined) }

NextDispatch ==
    \/ OnMounted
    \/ \E s \in Sockets : OnOpen(s)
    \/ \E c \in DeviceCmds : SendCommand(c)
    \/ \E k \in Calls : Timeout(k)
    \/ \E k \in Calls, p \in PeerPayloads : PeerRespond(k, p)
    \/ \E s \in Sockets, m \in TypedBroadcasts : PeerBroadcast(s, m)
    \/ \E s \in Sockets : Len(received) < MixLen /\ PeerPacket(s, DevA, TRUE)

DispatchSpec == Init /\ [][NextDispatch]_vars

(***************************************************************************)
(* HeartbeatSpec: heartbeat frames arrive among telemetry, commands and    *)
(* sessions, across reconnections.                                         *)
(***************************************************************************)
\* { type: 'ping' } and { type: 'pong' }
HeartbeatFrame(name) == [EmptyMsg EXCEPT !.type = Str(name)]

HeartbeatFrames == { HeartbeatFrame("ping"), HeartbeatFrame("pong") }

NextHeartbeat ==
    \/ OnMounted
    \/ \E s \in Sockets : OnOpen(s)
    \/ \E s \in Sockets : OnClose(s)
    \/ Reconnect
    \/ SendCommand("connect_device")
    \/ \E d \in Devices : CreateTab(SDRDevice(d), "")
    \/ \E s \in Sockets, m \in HeartbeatFrames \cup TypedBroadcasts :
          PeerBroadcast(s, m)
    \/ \E s \in Sockets : Len(received) < MixLen /\ PeerPacket(s, DevA, TRUE)

HeartbeatSpec == Init /\ [][NextHeartbeat]_vars

(***************************************************************************)
(* RxProfileSpec: receive profiles are selected in the view of the active  *)
(* session, the pane the tab bar shows.                                    *)
(***************************************************************************)
SelectValues == ProfileNames \cup {"custom"}

NextRxProfile ==
    \/ CreateTab(SDRDevice(DevA), "")
    \/ Tick
    \/ \E val \in SelectValues : OnRxSignalTypeChange(activeTabId, val)

RxProfileSpec == Init /\ [][NextRxProfile]_vars

(***************************************************************************)
(* TxProfileSpec: transmit profiles are selected in the view of the active *)
(* session, the pane the tab bar shows.                                    *)
(***************************************************************************)
NextTxProfile ==
    \/ CreateTab(SDRDevice(DevA), "")
    \/ Tick
    \/ \E val \in SelectValues : OnTxSignalTypeChange(activeTabId, val)

TxProfileSpec == Init /\ [][NextTxProfile]_vars

(***************************************************************************)
(* GainSpec: the writers of a gain: createTab with and without a persisted *)
(* record, the two gain inputs of the visible view and the transmit        *)
(* profiles, across restarts.                                              *)
(***************************************************************************)
\* the lower end of the range of the receive gain input
RxGainInputs == {0}
\* the ends of the range of the transmit power input
TxGainInputs == {-89, 0}
\* custom and a profile of gain -60
GainProfiles == {"custom", "red_broadcast"}

NextGain ==
    \/ CreateTab(SDRDevice(DevA), "")
    \/ \E v \in RxGainInputs : OnRxGainChange(activeTabId, v)
    \/ \E v \in TxGainInputs : OnTxGainChange(activeTabId, v)
    \/ \E val \in GainProfiles : OnTxSignalTypeChange(activeTabId, val)
    \/ Restart

GainSpec == Init /\ [][NextGain]_vars

(***************************************************************************)
(* ScanSpec: the device selector scans while sessions exist and the        *)
(* channel opens and closes.                                               *)
(***************************************************************************)
\* success, data and error of the answers to scan_devices
ScanPayloads ==
    { [success |-> TRUE, data |-> Arr(<<DevA>>), error |-> Null],
      [success |-> TRUE, data |-> Arr(<<DevA, DevB>>), error |-> Null],
      [success |-> FALSE, data |-> Null, error |-> Str("peer error")] }

NextScan ==
    \/ OnMounted
    \/ \E s \in Sockets : OnOpen(s)
    \/ \E s \in Sockets : OnClose(s)
    \/ ScanDevices
    \/ CreateTab(SDRDevice(DevA), "")
    \/ \E k \in Calls : Timeout(k)
    \/ \E k \in Calls, p \in ScanPayloads : PeerRespond(k, p)

ScanSpec == Init /\ [][NextScan]_vars

(***************************************************************************)
(* CodecSpec: the payload dialog under the operator's inputs.  The values  *)
(* typed are within the width of their field.                              *)
(***************************************************************************)
\* 0x1234, 0xffff and 1.5
WordSamples == {Units(4660), Units(65535), Num(15)}
\* 0xab, 0xff and a cleared input
ByteSamples == {Units(171), Units(255), Null}

NextCodec ==
    \/ OpenBroadcastConfig
    \/ \E key \in TabKeys : SelectTab(key)
    \/ \E f \in PositionFields, x \in WordSamples : SetForm0A01(f, x)
    \/ \E f \in HealthFields, x \in WordSamples : SetForm0A02(f, x)
    \/ \E x \in WordSamples : SetForm0A04("gold", x)
    \/ \E f \in FlagFields, b \in BOOLEAN : SetForm0A04(f, Bool(b))
    \/ \E i \in BuffInputs, x \in WordSamples :
          i[2] \in BuffWords /\ SetForm0A05(i[1], i[2], x)
    \/ \E i \in BuffInputs, x \in ByteSamples :
          i[2] \in BuffBytes /\ SetForm0A05(i[1], i[2], x)
    \/ HandleOk
    \/ HandleCancel

CodecSpec == Init /\ [][NextCodec]_vars

(***************************************************************************)
(* WordSpec: the dialog is open and one 16-bit field holds any of the      *)
(* integers of its width.                                                  *)
(***************************************************************************)
Word == 65536

InitWord ==
    /\ InitStore
    /\ activeTab = "0x0A01"
    /\ manualHex = <<>>
    /\ form0A01 \in {[ModalSetup.form0A01 EXCEPT !.hero_x = Units(v)] :
                        v \in 0..(Word - 1)}
    /\ form0A02 = ModalSetup.form0A02
    /\ form0A04 = ModalSetup.form0A04
    /\ form0A05 = ModalSetup.form0A05
    /\ broadcastModalVisible = TRUE
    /\ modelValue = Undefined
    /\ modalInputs = IF form0A01.hero_x = Num(0) THEN 1 ELSE 2

NextWord ==
    \/ HandleOk
    \/ HandleCancel

WordSpec == InitWord /\ [][NextWord]_vars

(***************************************************************************)
(* MaskSpec: the dialog is open on the match status pane and the flags     *)
(* hold any of their combinations.                                         *)
(***************************************************************************)
InitMask ==
    /\ InitStore
    /\ activeTab = "0x0A04"
    /\ manualHex = <<>>
    /\ form0A01 = ModalSetup.form0A01
    /\ form0A02 = ModalSetup.form0A02
    /\ form0A04 \in {[f \in FlagFields \cup {"gold"} |->
                         IF f = "gold" THEN Num(0) ELSE Bool(f \in S)] :
                        S \in SUBSET FlagFields}
    /\ form0A05 = ModalSetup.form0A05
    /\ broadcastModalVisible = TRUE
    /\ modelValue = Undefined
    /\ modalInputs =
          2 + Cardinality({f \in FlagFields : Truthy(form0A04[f])})

MaskSpec == InitMask /\ [][NextWord]_vars

(***************************************************************************)
(* DomainSpec: the operator types values beyond the width of a field and   *)
(* raw strings of even and of odd length.                                  *)
(***************************************************************************)
\* "a1 b2", "a1b" and "a1 b"
RawSamples ==
    {<<"a", "1", " ", "b", "2">>, <<"a", "1", "b">>, <<"a", "1", " ", "b">>}

NextDomain ==
    \/ OpenBroadcastConfig
    \/ \E key \in TabKeys : SelectTab(key)
    \/ \E f \in PositionFields : SetForm0A01(f, Units(65536))
    \/ \E i \in BuffInputs, x \in {Units(-1), Units(256)} :
          i[2] \in BuffBytes /\ SetForm0A05(i[1], i[2], x)
    \/ \E str \in RawSamples : SetManualHex(str)
    \/ HandleOk
    \/ HandleCancel

DomainSpec == Init /\ [][NextDomain]_vars

(***************************************************************************)
(* EnableTxSpec: the view of one session enables transmission, under a     *)
(* profile or without one, while the peer answers or stays silent.         *)
(***************************************************************************)
\* an event is handled only when no code that awaited a settled promise is
\* still to run
NextEnableTx ==
    \/ \E k \in Calls : ResumeEnableTx(k)
    \/ ~Runnable /\ OnMounted
    \/ ~Runnable /\ \E s \in Sockets : OnOpen(s)
    \/ ~Runnable /\ Len(tabs) = 0
                 /\ \E d \in Devices : CreateTab(SDRDevice(d), "")
    \/ ~Runnable /\ \E val \in {"custom", "red_broadcast"} :
                       OnTxSignalTypeChange(activeTabId, val)
    \/ ~Runnable /\ \E i \in 1..Len(tabs) : EnableTx(tabs[i].id)
    \/ ~Runnable /\ \E k \in Calls : Timeout(k)
    \/ ~Runnable /\ \E k \in Calls, p \in PeerPayloads : PeerRespond(k, p)

EnableTxSpec == Init /\ [][NextEnableTx]_vars

(***************************************************************************)
(* UnmountSpec: the channel owner is unmounted while the connection is     *)
(* being made, open, lost or waiting to be made again.                     *)
(***************************************************************************)
NextUnmount ==
    \/ OnMounted
    \/ \E s \in Sockets : OnOpen(s)
    \/ \E s \in Sockets : OnClose(s)
    \/ Reconnect
    \/ OnUnmounted
    \/ SendCommand("connect_device")
    \/ \E k \in Calls : Timeout(k)
    \/ \E k \in Calls, p \in PeerPayloads : PeerRespond(k, p)

UnmountSpec == Init /\ [][NextUnmount]_vars

(***************************************************************************)
(* The claims.  A step's handler and input are last' (every action sets    *)
(* it), so an action formula reads the state before the handler unprimed   *)
(* and the state after it primed.                                          *)
(***************************************************************************)
\* call k's request is on the wire and its promise is not settled
InFlight(k) == k <= nCalls /\ sentOn[k] # 0 /\ result[k] = NoResult

\* no command of the same name was issued after call k
NoLaterSameName(k) ==
    \A j \in Calls : (k < j /\ j <= nCalls) => callCmd[j] # callCmd[k]

TimeoutResponse(k) ==
    CommandResponse(callCmd[k], FALSE, Null, Str(TimeoutError))

\* C1: while a command named c is in flight and no later command named c
\* has been issued, a frame whose cmd is c resolves that caller with exactly
\* that frame and removes the pending entry; a frame whose cmd differs
\* neither resolves the caller nor removes its pending entry.
C1_Correlation ==
    [][\A k \in Calls :
          (/\ last'.op = "onmessage"
           /\ Truthy(last'.frame.cmd)
           /\ InFlight(k)
           /\ NoLaterSameName(k))
          => IF last'.frame.cmd = Str(callCmd[k])
             THEN /\ result'[k] = last'.frame
                  /\ pendingCommands'[callCmd[k]] = 0
             ELSE /\ result'[k] = NoResult
                  /\ pendingCommands'[callCmd[k]] = pendingCommands[callCmd[k]]
      ]_vars

\* C2: the timeout of a call resolves it with success:false and the timeout
\* error and removes the pending entry of its name; the response the peer
\* gave to a call that has timed out resolves no caller and changes no state.
C2_Timeout ==
    [][/\ last'.op = "timeout"
          => /\ result'[last'.call] = TimeoutResponse(last'.call)
             /\ pendingCommands'[callCmd[last'.call]] = 0
       /\ (/\ last'.op = "onmessage"
           /\ last'.frame.req # 0
           /\ result[last'.frame.req] = TimeoutResponse(last'.frame.req))
          => UNCHANGED <<pendingCommands, timer, resolveCount, result,
                         telemetryVars, sessionVars>>
      ]_vars

\* C3: a second command named c issued while a first is pending takes over
\* the entry of c; the next frame with cmd c resolves the second caller, and
\* the first caller is resolved by nothing but its own timeout.
C3_OneEntryPerName ==
    [][/\ (last'.op = "sendCommand" /\ sentOn'[last'.call] # 0)
          => pendingCommands'[callCmd'[last'.call]] = last'.call
       /\ \A k \in Calls :
             (/\ last'.op = "onmessage"
              /\ last'.frame.cmd = Str(callCmd[k])
              /\ InFlight(k)
              /\ replaced[k] # 0
              /\ NoLaterSameName(k))
             => result'[k] = last'.frame
       /\ \A k \in Calls :
             (/\ \E j \in Calls : replaced[j] = k
              /\ result[k] = NoResult
              /\ result'[k] # NoResult)
             => (last'.op = "timeout" /\ last'.call = k)
      ]_vars

\* C4: every sendCommand call is resolved, with a response to its command
\* name, and its promise's resolve runs exactly once, under every
\* interleaving of responses, timeouts, other commands and channel closure.
C4_ResolvedExactlyOnce ==
    /\ [](\A k \in Calls :
            /\ resolveCount[k] <= 1
            /\ (resolveCount[k] = 1) = (result[k] # NoResult)
            /\ result[k] # NoResult => result[k].cmd = Str(callCmd[k]))
    /\ \A k \in HandlerCalls : (nCalls >= k) ~> (resolveCount[k] = 1)

\* Two calls of one name, one resolved by a frame and one by its timeout
\* after the channel it was sent on had closed.
C4_Witness ==
    \E k, j \in Calls :
       /\ k # j
       /\ callCmd[k] = callCmd[j]
       /\ result[k] = TimeoutResponse(k)
       /\ sentOn[k] # 0
       /\ readyState[sentOn[k]] = "CLOSED"
       /\ result[j] # NoResult
       /\ result[j].req # 0

\* C5: sendCommand with no channel registered, or with a channel that is
\* not open, resolves at once with success:false and the not-connected
\* error; nothing is sent, no pending entry is registered, no timeout is
\* armed, and sessions and telemetry are unchanged.
C5_NotConnected ==
    [][(/\ last'.op = "sendCommand"
        /\ (wsSocket = 0 \/ readyState[wsSocket] # "OPEN"))
       => /\ result'[last'.call] =
                CommandResponse(callCmd'[last'.call], FALSE, Null,
                                Str(NotConnectedError))
          /\ resolveCount'[last'.call] = 1
          /\ UNCHANGED <<sentOn, pendingCommands, timer, telemetryVars,
                         sessionVars>>
      ]_vars

\* A command refused on a closed channel while an earlier one is pending.
C5_Witness ==
    /\ last.op = "sendCommand"
    /\ wsSocket # 0
    /\ readyState[wsSocket] = "CLOSED"
    /\ result[last.call].error = Str(NotConnectedError)
    /\ sentOn[last.call] = 0
    /\ \E c \in CmdNames : pendingCommands[c] # 0
    /\ spectrums[DevA] # NoSpectrum

\* the updateSpectrum argument a frame carries, in either wire form
Carried(msg) ==
    IF msg.type = Str("spectrum") THEN msg
    ELSE IF msg.cmd = Str("spectrum") /\ msg.data.t = "object" THEN msg.data.v
    ELSE EmptyMsg

IsSpectrumFrame(msg) ==
    msg.type = Str("spectrum") \/ msg.cmd = Str("spectrum")

\* C6: a spectrum frame for one device never changes another device's
\* cached spectrum, and a device's cached spectrum is the frequencies and
\* power of the last frame that carried them for that device: every such
\* frame replaces the cache of its device, and nothing else changes it.
C6_SpectrumIsolation ==
    [][\A d \in Devices :
          LET c == Carried(last'.frame) IN
          IF /\ last'.op = "onmessage"
             /\ c.device_id = Str(d)
             /\ c.frequencies.t = "array"
             /\ c.power.t = "array"
          THEN spectrums'[d] =
                  [frequencies |-> c.frequencies, power |-> c.power]
          ELSE spectrums'[d] = spectrums[d]
      ]_vars

\* Frames for both devices have arrived interleaved; the last one was for
\* DevA and left DevB's different spectrum in place.
C6_Witness ==
    /\ last.op = "onmessage"
    /\ last.frame.type = Str("spectrum")
    /\ last.frame.device_id = Str(DevA)
    /\ spectrums[DevA] = [frequencies |-> Arr(<<433>>), power |-> Arr(<<-70>>)]
    /\ spectrums[DevB] = [frequencies |-> Arr(<<434>>), power |-> Arr(<<-70>>)]
    /\ last.frame.frequencies = Arr(<<433>>)

\* C7: a spectrum frame that carries no device identifier changes no
\* device's cached spectrum and no device's runtime flags, whatever else it
\* carries.
C7_NoDeviceDropped ==
    [][(/\ last'.op = "onmessage"
        /\ IsSpectrumFrame(last'.frame)
        /\ \A d \in Devices : Carried(last'.frame).device_id # Str(d))
       => /\ spectrums' = spectrums
          /\ runtimeStatus' = runtimeStatus
      ]_vars

\* A frame without device_id that carries a spectrum and both flags has
\* been handled, and DevA's other spectrum and flags stand.
C7_Witness ==
    /\ last.op = "onmessage"
    /\ last.frame.type = Str("spectrum")
    /\ last.frame.device_id = Undefined
    /\ last.frame.frequencies = Arr(<<433>>)
    /\ last.frame.power = Arr(<<-70>>)
    /\ last.frame.overflow = Bool(TRUE)
    /\ last.frame.underflow = Bool(TRUE)
    /\ spectrums[DevA] = [frequencies |-> Arr(<<434>>), power |-> Arr(<<-70>>)]
    /\ runtimeStatus[DevA] = [overflow |-> FALSE, underflow |-> FALSE]
    /\ spectrums[DevB] = NoSpectrum
    /\ runtimeStatus[DevB] = NoStatus

\* the packet the store builds from a packet frame
PacketOf(msg) ==
    [timestamp |-> msg.timestamp, hex |-> msg.hex,
     packetType |-> msg.packet_type, isValid |-> msg.is_valid,
     deviceId |-> msg.device_id]

\* C8: after n packet frames the queue holds the most recent min(n, 100)
\* packets, oldest first, and never more than 100.
C8_QueueBound ==
    LET n == Len(received)
        m == IF n < 100 THEN n ELSE 100
    IN  /\ Len(decodedPackets) = m
        /\ Len(decodedPackets) <= 100
        /\ \A i \in 1..m : decodedPackets[i] = PacketOf(received[n - m + i])

\* More than 100 packet frames have arrived and the oldest were evicted.
C8_Witness ==
    /\ Len(received) = 103
    /\ Len(decodedPackets) = 100
    /\ decodedPackets[1].timestamp = Num(4)
    /\ decodedPackets[100].timestamp = Num(103)

\* the packets of a queue that are for device d, in queue order
PacketsFor(q, d) == SelectSeq(q, LAMBDA pkt : pkt.deviceId = Str(d))

\* the most recent n elements of a sequence
MostRecent(q, n) ==
    IF Len(q) <= n THEN q ELSE [i \in 1..n |-> q[Len(q) - n + i]]

C10_Flags ==
    /\ \A d \in Devices :
          StatusFlags(d) = [overflow |-> FALSE, underflow |-> FALSE]
    /\ [][\A d \in Devices :
             LET c == Carried(last'.frame)
                 old == StatusOrDefault(runtimeStatus, d)
                 new == StatusOrDefault(runtimeStatus', d)
             IN  IF last'.op = "onmessage" /\ c.device_id = Str(d)
                 THEN /\ new.overflow = IF c.overflow.t = "boolean"
                                        THEN c.overflow.v ELSE old.overflow
                      /\ new.underflow = IF c.underflow.t = "boolean"
                                         THEN c.underflow.v ELSE old.underflow
                 ELSE runtimeStatus'[d] = runtimeStatus[d]
         ]_vars

\* A frame for DevA that reports overflow false and no underflow has
\* cleared DevA's overflow and kept its underflow; DevB's flags stand.
C10_Witness ==
    /\ last.op = "onmessage"
    /\ last.frame.type = Str("spectrum")
    /\ last.frame.device_id = Str(DevA)
    /\ last.frame.overflow = Bool(FALSE)
    /\ last.frame.underflow = Undefined
    /\ runtimeStatus[DevA] = [overflow |-> FALSE, underflow |-> TRUE]
    /\ runtimeStatus[DevB] = [overflow |-> TRUE, underflow |-> FALSE]

\* C11: a frame of type status that carries a device identifier and a
\* boolean overflow or underflow leaves that device's runtime flags equal to
\* the booleans it carried.
C11_StatusFrame ==
    [][\A d \in Devices :
          (/\ last'.op = "onmessage"
           /\ last'.frame.type = Str("status")
           /\ last'.frame.device_id = Str(d)
           /\ (IsBoolean(last'.frame.overflow)
                  \/ IsBoolean(last'.frame.underflow)))
          => /\ runtimeStatus'[d] # NoStatus
             /\ IsBoolean(last'.frame.overflow)
                  => runtimeStatus'[d].overflow = last'.frame.overflow.v
             /\ IsBoolean(last'.frame.underflow)
                  => runtimeStatus'[d].underflow = last'.frame.underflow.v
      ]_vars

\* the record persisted for a session
RecordOf(tab) ==
    [deviceId |-> tab.deviceId, name |-> tab.name, mode |-> tab.mode,
     rxConfig |-> tab.rxConfig, txConfig |-> tab.txConfig]

\* the persisted list holds the records of exactly the sessions of ts
PersistedIs(item, ts) ==
    /\ Len(item) = Len(ts)
    /\ \A i \in 1..Len(ts) : item[i] = RecordOf(ts[i])

\* the persisted list has a record for device d
HasRecord(item, d) == \E i \in 1..Len(item) : item[i].deviceId = d

\* C12: createTab for a device with no persisted record appends a session
\* with receive gain 50, transmit gain -10, sample rate 2 MHz, center
\* frequency 433.5 MHz, manual gain mode, mode rx and isStreaming false; the
\* session becomes the active one, its device is attached and the persisted
\* list is rewritten from the session list.
C12_CreateDefaults ==
    [][(/\ last'.op = "createTab"
        /\ ~HasRecord(storage, last'.frame.device.id))
       => LET t == tabs'[Len(tabs')] IN
          /\ tabs' = Append(tabs, t)
          /\ t.deviceId = last'.frame.device.id
          /\ t.rxConfig.gain = 50
          /\ t.txConfig.gain = -10
          /\ t.rxConfig.sampleRate = 2000000
          /\ t.txConfig.sampleRate = 2000000
          /\ t.rxConfig.centerFreq = 433500000
          /\ t.txConfig.centerFreq = 433500000
          /\ t.rxConfig.gainMode = "manual"
          /\ t.txConfig.gainMode = "manual"
          /\ t.mode = "rx"
          /\ t.isStreaming = FALSE
          /\ activeTabId' = t.id
          /\ ActiveTab' = t
          /\ \E i \in 1..Len(connectedDeviceIds') :
                connectedDeviceIds'[i] = t.deviceId
          /\ PersistedIs(storage', tabs')
      ]_vars

\* After a restart, DevB's session was restored from its record and DevA,
\* which has no record, got a session with the defaults.
C12_Witness ==
    /\ last.op = "createTab"
    /\ last.frame.device.id = DevA
    /\ restarts = 1
    /\ ~HasRecord(atStop, DevA)
    /\ HasRecord(atStop, DevB)
    /\ Len(tabs) = 2
    /\ tabs[1].deviceId = DevB
    /\ tabs[1].mode = "tx"
    /\ tabs[2].deviceId = DevA
    /\ tabs[2].mode = "rx"
    /\ tabs[2].txConfig.gain = -10
    /\ activeTabId = tabs[2].id

\* C13: after a restart, the first session created for a device that had a
\* session when the process stopped carries the name, mode, rxConfig and
\* txConfig persisted for that device, whatever was done with other
\* devices' sessions in between.
C13_ConfigSurvivesRestart ==
    [][(/\ last'.op = "createTab"
        /\ last'.frame.customName = ""
        /\ restarts >= 1
        /\ HasRecord(atStop, last'.frame.device.id)
        /\ \A i \in 1..Len(created) :
              created[i][1] # last'.frame.device.id)
       => LET t == tabs'[Len(tabs')] IN
          \E i \in 1..Len(atStop) :
             /\ atStop[i].deviceId = t.deviceId
             /\ atStop[i] = RecordOf(t)
      ]_vars

\* C14: no two sessions reference the same device, and createTab for a
\* device that already has a session leaves the session list unchanged.
C14_OneSessionPerDevice ==
    /\ [](\A i, j \in 1..Len(tabs) :
             i # j => tabs[i].deviceId # tabs[j].deviceId)
    /\ [][(/\ last'.op = "createTab"
            /\ \E i \in 1..Len(tabs) :
                  tabs[i].deviceId = last'.frame.device.id)
           => tabs' = tabs
          ]_vars

\* the sessions, the active id, the attached devices and the persisted list
SessionState == <<tabs, activeTabId, connectedDeviceIds, storage>>

\* C15: removeTab(id) removes exactly the session with that id, unmarks its
\* device exactly when no remaining session references it, and rewrites the
\* persisted list; with an id that names no session it changes nothing, so
\* a second removeTab of the same id changes nothing.
C15_RemoveTab ==
    [][last'.op = "removeTab"
       => LET id == last'.frame.tabId IN
          /\ IF \E i \in 1..Len(tabs) : tabs[i].id = id
             THEN \E i \in 1..Len(tabs) :
                     /\ tabs[i].id = id
                     /\ Len(tabs') = Len(tabs) - 1
                     /\ \A j \in 1..Len(tabs') :
                           tabs'[j] = IF j < i THEN tabs[j] ELSE tabs[j + 1]
                     /\ \A d \in Devices :
                           (\E n \in 1..Len(connectedDeviceIds') :
                               connectedDeviceIds'[n] = d)
                           <=> /\ \E n \in 1..Len(connectedDeviceIds) :
                                     connectedDeviceIds[n] = d
                               /\ \/ d # tabs[i].deviceId
                                  \/ \E j \in 1..Len(tabs') :
                                        tabs'[j].deviceId = d
                     /\ PersistedIs(storage', tabs')
             ELSE SessionState' = SessionState
          /\ (last.op = "removeTab" /\ last.frame.tabId = id)
                => SessionState' = SessionState
      ]_vars

C17_UpdateMerges ==
    [][last'.op = "updateTabConfig"
       => LET id == last'.frame.tabId
              u == last'.frame.updates
          IN  /\ telemetryVars' = telemetryVars
              /\ activeTabId' = activeTabId
              /\ connectedDeviceIds' = connectedDeviceIds
              /\ Len(tabs') = Len(tabs)
              /\ IF \E i \in 1..Len(tabs) : tabs[i].id = id
                 THEN \E i \in 1..Len(tabs) :
                         /\ tabs[i].id = id
                         /\ \A f \in DOMAIN tabs[i] :
                               tabs'[i][f] = IF f \in DOMAIN u
                                             THEN u[f] ELSE tabs[i][f]
                         /\ \A j \in 1..Len(tabs) :
                               j # i => tabs'[j] = tabs[j]
                         /\ Len(storage') = Len(tabs')
                         /\ storage'[i] = RecordOf(tabs'[i])
                 ELSE tabs' = tabs /\ storage' = storage
      ]_vars

\* With a spectrum and an overflow flag of DevA in the store, the first of
\* two sessions was updated: its mode and rxConfig are the given ones, its
\* name and txConfig are kept, the second session is as it was created.
C17_Witness ==
    /\ last.op = "updateTabConfig"
    /\ Len(tabs) = 2
    /\ last.frame.tabId = tabs[1].id
    /\ tabs[1].id # tabs[2].id
    /\ tabs[1].mode = "tx"
    /\ tabs[1].rxConfig.gain = 30
    /\ tabs[1].name = "Pluto-1"
    /\ tabs[1].txConfig = DefaultTxConfig
    /\ tabs[2].mode = "rx"
    /\ tabs[2].rxConfig = DEFAULT_CONFIG
    /\ storage[1].mode = "tx"
    /\ spectrums[DevA] # NoSpectrum
    /\ runtimeStatus[DevA] = [overflow |-> TRUE, underflow |-> FALSE]

\* C18: the ids createTab has given out since the process started are
\* pairwise different, whether or not their sessions still exist.
C18_UniqueIds ==
    \A i, j \in 1..Len(created) : i # j => created[i] # created[j]

\* C19: removeTab cancels no command (no timer, no resolver, no result is
\* touched); and when a start_streaming or stop_streaming call of the view
\* of a session is still in flight after the session was removed, the step
\* that delivers its response or its timeout changes neither the session
\* list, nor the attached set, nor the persisted list.
C19_RemovedSessionCommand ==
    [][/\ last'.op = "removeTab"
          => /\ timer' = timer
             /\ pendingCommands' = pendingCommands
             /\ result' = result
       /\ \A k \in Calls :
             (/\ caller[k].kind = "toggleStream"
              /\ result[k] = NoResult
              /\ \A i \in 1..Len(tabs) : tabs[i].id # caller[k].tabId
              /\ \/ last'.op = "timeout" /\ last'.call = k
                 \/ last'.op = "onmessage" /\ last'.frame.req = k)
             => /\ tabs' = tabs
                /\ connectedDeviceIds' = connectedDeviceIds
                /\ storage' = storage]_vars

\* C20: the transmit preview of a device is empty unless a start_tx_signal
\* call issued for that device has resolved with success true and data; a
\* preview changes only in the step in which such a call resolves so; and
\* the step in which a start_tx_signal call resolves without success (a
\* failure answer, the timeout, the channel not open) changes no preview.
C20_TxPreview ==
    /\ [](\A d \in Devices :
            txSpectrums[d] # NoSpectrum
            => \E k \in Calls :
                  /\ caller[k].kind = "startTxSignal"
                  /\ caller[k].deviceId = d
                  /\ result[k] # NoResult
                  /\ result[k].success = Bool(TRUE)
                  /\ Truthy(result[k].data))
    /\ [][/\ (\A d \in Devices :
                txSpectrums'[d] # txSpectrums[d]
                => \E k \in Calls :
                      /\ caller'[k].kind = "startTxSignal"
                      /\ caller'[k].deviceId = d
                      /\ callCmd'[k] = "start_tx_signal"
                      /\ result[k] = NoResult
                      /\ result'[k] # NoResult
                      /\ result'[k].success = Bool(TRUE)
                      /\ Truthy(result'[k].data))
           /\ (\A j \in Calls :
                (/\ callCmd'[j] = "start_tx_signal"
                 /\ result[j] = NoResult
                 /\ result'[j] # NoResult
                 /\ result'[j].success # Bool(TRUE))
                => txSpectrums' = txSpectrums)]_vars

\* C20: a start_tx_signal for one device has failed and its preview is
\* still empty, and the response that has just arrived gave the other
\* device its preview
C20_Witness ==
    /\ last.op = "onmessage"
    /\ txSpectrums[DevA] =
          [frequencies |-> Arr(<<433>>), power |-> Arr(<<-70>>)]
    /\ txSpectrums[DevB] = NoSpectrum
    /\ \E k, j \in Calls :
          /\ caller[k].kind = "startTxSignal"
          /\ caller[k].deviceId = DevA
          /\ last.frame.req = k
          /\ result[k] = last.frame
          /\ caller[j].kind = "startTxSignal"
          /\ caller[j].deviceId = DevB
          /\ result[j] # NoResult
          /\ result[j].success = Bool(FALSE)

\* C21: the handler given a frame that cannot be parsed changes nothing:
\* sessions, telemetry of every device, the packet queue, the pending
\* commands, the calls and the channel (with the handler installed on it)
\* are as before, so what every later frame meets is what it would have
\* met without the bad frame.
C21_BadFrame ==
    [][(last'.op = "onmessage" /\ ~last'.frame.parseable)
       => UNCHANGED <<channelVars, wsSocket, pendingCommands, telemetryVars,
                      sessionVars, callVars>>]_vars

\* C21: a cut-off answer to a pending command has just arrived while
\* telemetry and packets are held, and the command is still pending
C21_Witness ==
    /\ last.op = "onmessage"
    /\ ~last.frame.parseable
    /\ last.frame.cmd = Str("connect_device")
    /\ pendingCommands["connect_device"] # 0
    /\ spectrums[DevA] # NoSpectrum
    /\ Len(decodedPackets) > 0

\* C22: a frame with a type (spectrum, packet, status) and no cmd resolves
\* no call and leaves the pending commands and the timers as they are; and
\* a frame with cmd c that the store's handler receives while a command
\* named c is in flight (the latest of that name) resolves that command with
\* the frame, whatever broadcasts arrived before.
C22_Dispatch ==
    [][last'.op = "onmessage"
       => /\ (/\ last'.frame.parseable
              /\ last'.frame.cmd = Undefined
              /\ last'.frame.type \in
                    {Str("spectrum"), Str("packet"), Str("status")})
             => UNCHANGED <<pendingCommands, timer, resolveCount, result>>
          /\ \A k \in Calls :
                (/\ onmessage[last'.call] = "store"
                 /\ last'.frame.parseable
                 /\ last'.frame.cmd = Str(callCmd[k])
                 /\ InFlight(k)
                 /\ NoLaterSameName(k))
                => /\ result'[k] = last'.frame
                   /\ pendingCommands'[callCmd[k]] = 0]_vars

\* C23: the handler given a heartbeat frame (type ping or pong), whichever
\* handler the socket carries, leaves the sessions, the active id, the
\* attached set, the device list, the persisted list, the spectra, the
\* runtime flags, the transmit previews, the packet queue and the pending
\* commands with their calls unchanged.
C23_Heartbeat ==
    [][(/\ last'.op = "onmessage"
        /\ last'.frame.type \in {Str("ping"), Str("pong")})
       => UNCHANGED <<tabs, activeTabId, connectedDeviceIds, devices, storage,
                      spectrums, runtimeStatus, txSpectrums, decodedPackets,
                      pendingCommands, timer, resolveCount, result>>]_vars

\* C23: a pong has just arrived while a session, a spectrum, a packet and a
\* pending command are held
C23_Witness ==
    /\ last.op = "onmessage"
    /\ last.frame.type = Str("pong")
    /\ Len(tabs) > 0
    /\ spectrums[DevA] # NoSpectrum
    /\ Len(decodedPackets) > 0
    /\ pendingCommands["connect_device"] # 0

\* the profile table of the specification: center and bandwidth in Hz,
\* transmit gain in dB
ProfileTable ==
    [n \in ProfileNames |->
        CASE n = "red_broadcast"
               -> [center |-> 433200000, bandwidth |-> 540000, gain |-> -60]
          [] n = "red_jam_1"
               -> [center |-> 432200000, bandwidth |-> 1040000, gain |-> -10]
          [] n = "red_jam_2"
               -> [center |-> 432600000, bandwidth |-> 610000, gain |-> 0]
          [] n = "red_jam_3"
               -> [center |-> 433200000, bandwidth |-> 440000, gain |-> -10]
          [] n = "blue_broadcast"
               -> [center |-> 433920000, bandwidth |-> 540000, gain |-> -60]
          [] n = "blue_jam_1"
               -> [center |-> 434920000, bandwidth |-> 1040000, gain |-> -10]
          [] n = "blue_jam_2"
               -> [center |-> 434520000, bandwidth |-> 610000, gain |-> 0]
          [] n = "blue_jam_3"
               -> [center |-> 433920000, bandwidth |-> 440000, gain |-> -10]]

\* C24: selecting a named receive profile sets the session's receive center
\* frequency to the table's center and its receive bandwidth to the larger
\* of the table's bandwidth and 1 MHz (red_jam_2: 432.6 MHz and 1 MHz) and
\* leaves receive gain, sample rate, gain mode and the transmit
\* configuration as they were; selecting custom leaves both configurations
\* as they were; no other session changes.
C24_RxProfile ==
    [][last'.op = "onRxSignalTypeChange"
       => LET i == FindIndex(tabs, last'.frame.tabId)
              val == last'.frame.val
          IN  /\ Len(tabs') = Len(tabs)
              /\ \A j \in 1..Len(tabs) : j # i => tabs'[j] = tabs[j]
              /\ tabs'[i].txConfig = tabs[i].txConfig
              /\ tabs'[i].rxConfig.gain = tabs[i].rxConfig.gain
              /\ tabs'[i].rxConfig.sampleRate = tabs[i].rxConfig.sampleRate
              /\ tabs'[i].rxConfig.gainMode = tabs[i].rxConfig.gainMode
              /\ IF val = "custom"
                 THEN tabs'[i].rxConfig = tabs[i].rxConfig
                 ELSE /\ tabs'[i].rxConfig.centerFreq = ProfileTable[val].center
                      /\ tabs'[i].rxConfig.bandwidth =
                            IF ProfileTable[val].bandwidth > 1000000
                            THEN ProfileTable[val].bandwidth ELSE 1000000
              /\ (val = "red_jam_2"
                  => /\ tabs'[i].rxConfig.centerFreq = 432600000
                     /\ tabs'[i].rxConfig.bandwidth = 1000000)]_vars

\* C24: red_jam_2 has just been selected in the second session, after
\* blue_jam_1 in the first
C24_Witness ==
    /\ last.op = "onRxSignalTypeChange"
    /\ last.frame.val = "red_jam_2"
    /\ Len(tabs) = 2
    /\ tabs[1].id # tabs[2].id
    /\ tabs[1].rxSignalType = "blue_jam_1"
    /\ tabs[1].rxConfig.centerFreq = 434920000
    /\ tabs[1].rxConfig.bandwidth = 1040000
    /\ tabs[2].id = last.frame.tabId
    /\ tabs[2].rxConfig.centerFreq = 432600000
    /\ tabs[2].rxConfig.bandwidth = 1000000
    /\ tabs[2].rxConfig.gain = 50
    /\ tabs[2].txConfig.gain = -10
    /\ tabs[2].txConfig.bandwidth = 4000000

\* C25: selecting a named transmit profile sets the session's transmit
\* center frequency, bandwidth and gain to the table's values, the gain
\* being within [-89, 0], and leaves sample rate, gain mode and the receive
\* configuration as they were; selecting custom leaves both configurations
\* as they were; afterwards the transmit fields are locked exactly when the
\* selected value is not custom; no other session changes.
C25_TxProfile ==
    [][last'.op = "onTxSignalTypeChange"
       => LET i == FindIndex(tabs, last'.frame.tabId)
              val == last'.frame.val
          IN  /\ Len(tabs') = Len(tabs)
              /\ \A j \in 1..Len(tabs) : j # i => tabs'[j] = tabs[j]
              /\ tabs'[i].rxConfig = tabs[i].rxConfig
              /\ tabs'[i].txConfig.sampleRate = tabs[i].txConfig.sampleRate
              /\ tabs'[i].txConfig.gainMode = tabs[i].txConfig.gainMode
              /\ IF val = "custom"
                 THEN tabs'[i].txConfig = tabs[i].txConfig
                 ELSE /\ tabs'[i].txConfig.centerFreq = ProfileTable[val].center
                      /\ tabs'[i].txConfig.bandwidth =
                            ProfileTable[val].bandwidth
                      /\ tabs'[i].txConfig.gain = ProfileTable[val].gain
                      /\ tabs'[i].txConfig.gain >= -89
                      /\ tabs'[i].txConfig.gain <= 0
              /\ TxLocked(tabs'[i]) <=> (val # "custom")]_vars

\* C25: custom has just been selected in the second session after red_jam_2,
\* whose values it keeps, and the first session holds blue_broadcast
C25_Witness ==
    /\ last.op = "onTxSignalTypeChange"
    /\ last.frame.val = "custom"
    /\ Len(tabs) = 2
    /\ tabs[1].id # tabs[2].id
    /\ tabs[1].txSignalType = "blue_broadcast"
    /\ tabs[1].txConfig.centerFreq = 433920000
    /\ tabs[1].txConfig.bandwidth = 540000
    /\ tabs[1].txConfig.gain = -60
    /\ TxLocked(tabs[1])
    /\ tabs[2].id = last.frame.tabId
    /\ tabs[2].txConfig.centerFreq = 432600000
    /\ tabs[2].txConfig.bandwidth = 610000
    /\ tabs[2].txConfig.gain = 0
    /\ tabs[2].rxConfig.gain = 50
    /\ ~TxLocked(tabs[2])

C27_Scan ==
    [][\A k \in Calls :
          (/\ caller'[k].kind = "scanDevices"
           /\ result[k] = NoResult
           /\ result'[k] # NoResult)
          => /\ selectorDevices' =
                   IF result'[k].success = Bool(TRUE)
                   THEN result'[k].data ELSE Arr(<<>>)
             /\ tabs' = tabs
             /\ connectedDeviceIds' = connectedDeviceIds]_vars

\* the integer a form number stands for in a record: its integer part, and 0
\* for a cleared input
FieldValue(x) == IF x.t = "number" THEN x.v \div 10 ELSE 0

UpperDigits ==
    <<"0", "1", "2", "3", "4", "5", "6", "7", "8", "9",
      "A", "B", "C", "D", "E", "F">>

\* one byte as two uppercase hex characters
ByteHex(b) == <<UpperDigits[(b \div 16) + 1], UpperDigits[(b % 16) + 1]>>

\* the n low bytes of v, lowest first
RECURSIVE LittleEndian(_, _)
LittleEndian(v, n) ==
    IF n = 0 THEN <<>>
    ELSE ByteHex(v % 256) \o LittleEndian(v \div 256, n - 1)

Word16(x) == LittleEndian(FieldValue(x), 2)
Byte8(x) == ByteHex(FieldValue(x))
InWord(x) == FieldValue(x) \in 0..65535
InByte(x) == FieldValue(x) \in 0..255

\* every input of the selected record is within the width of its field
InRangeForm ==
    CASE activeTab = "0x0A01" ->
            \A f \in PositionFields : InWord(form0A01[f])
      [] activeTab = "0x0A02" ->
            \A f \in HealthFields : InWord(form0A02[f])
      [] activeTab = "0x0A04" -> InWord(form0A04.gold)
      [] activeTab = "0x0A05" ->
            \A i \in BuffInputs :
               IF i[2] \in BuffWords THEN InWord(form0A05[i[1]][i[2]])
               ELSE InByte(form0A05[i[1]][i[2]])
      [] OTHER -> FALSE

\* one sub-record of the buff block
BuffRecord(b) ==
    Byte8(b.hp_rec) \o Word16(b.cool) \o Byte8(b.def) \o Byte8(b.neg_def)
       \o Word16(b.att)

\* C28: for in-range inputs each record's encoding is the concatenation of
\* its fields in the declared order and width: Position twelve 16-bit
\* little-endian fields hero, engineer, infantry-3, infantry-4, aerial,
\* sentry (x then y); Health hero, engineer, infantry-3, infantry-4, two
\* zero bytes, sentry; Match status gold, two zero bytes, the 32-bit
\* little-endian bitmask; Buff block the sub-records hero, engineer,
\* infantry-3, infantry-4, sentry, each health-recovery (1 byte), cooldown
\* (2), defense (1), negative-defense (1), attack (2), and one trailing
\* attitude byte for the sentry only.
C28_Layout ==
    InRangeForm =>
       generatedPayload =
          CASE activeTab = "0x0A01" ->
                  Word16(form0A01.hero_x) \o Word16(form0A01.hero_y)
                     \o Word16(form0A01.eng_x) \o Word16(form0A01.eng_y)
                     \o Word16(form0A01.inf3_x) \o Word16(form0A01.inf3_y)
                     \o Word16(form0A01.inf4_x) \o Word16(form0A01.inf4_y)
                     \o Word16(form0A01.air_x) \o Word16(form0A01.air_y)
                     \o Word16(form0A01.sentry_x)
                     \o Word16(form0A01.sentry_y)
            [] activeTab = "0x0A02" ->
                  Word16(form0A02.hero_hp) \o Word16(form0A02.eng_hp)
                     \o Word16(form0A02.inf3_hp) \o Word16(form0A02.inf4_hp)
                     \o ByteHex(0) \o ByteHex(0)
                     \o Word16(form0A02.sentry_hp)
            [] activeTab = "0x0A04" ->
                  Word16(form0A04.gold) \o ByteHex(0) \o ByteHex(0)
                     \o LittleEndian(MaskAfter(form0A04, Len(MaskBits)), 4)
            [] activeTab = "0x0A05" ->
                  BuffRecord(form0A05.hero) \o BuffRecord(form0A05.eng)
                     \o BuffRecord(form0A05.inf3)
                     \o BuffRecord(form0A05.inf4)
                     \o BuffRecord(form0A05.sentry)
                     \o Byte8(form0A05.sentry.attitude)

\* C28 witness: the buff pane with the sentry's attack 0x1234: the sentry's
\* sub-record is 00 0000 00 00 3412 and the attitude byte 00 ends the block
C28_Witness ==
    /\ broadcastModalVisible
    /\ activeTab = "0x0A05"
    /\ form0A05.sentry.att = Units(4660)
    /\ Len(generatedPayload) = 72
    /\ SubSeq(generatedPayload, 57, 72) =
          <<"0", "0", "0", "0", "0", "0", "0", "0", "0", "0",
            "3", "4", "1", "2", "0", "0">>

\* C29: for every valid input the encoded payload has a fixed length,
\* Position 48 hex characters, Health 24, Match status 16, Buff block 72,
\* and every character is an uppercase hexadecimal digit.
C29_Length ==
    LET payload == generatedPayload IN
    InRangeForm =>
       /\ Len(payload) =
             CASE activeTab = "0x0A01" -> 48
               [] activeTab = "0x0A02" -> 24
               [] activeTab = "0x0A04" -> 16
               [] activeTab = "0x0A05" -> 72
       /\ \A i \in 1..Len(payload) :
             payload[i] \in {UpperDigits[d] : d \in 1..16}

\* C29 witness: the health pane with the hero at 65535 was confirmed: the
\* 24 characters emitted start FFFF
C29_Witness ==
    /\ activeTab = "0x0A02"
    /\ form0A02.hero_hp = Units(65535)
    /\ modelValue = Str(generatedPayload)
    /\ Len(generatedPayload) = 24
    /\ SubSeq(generatedPayload, 1, 4) = <<"F", "F", "F", "F">>

\* the value of a hex character
DigitValue(c) ==
    CHOOSE d \in 0..15 : c = HexDigits[d + 1] \/ c = UpperDigits[d + 1]

IsHexChar(c) == \E d \in 0..15 : c = HexDigits[d + 1] \/ c = UpperDigits[d + 1]

\* C30: for every integer v with 0 <= v < 65536 the 16-bit field encoding
\* of v is four hex characters whose first byte is v mod 256 and whose
\* second byte is v div 256, so that reading the two bytes as little-endian
\* gives v back.
C30_RoundTrip ==
    LET x == form0A01.hero_x
        v == x.v \div Tenths
        h == toLEHex(x, 2)
        lo == 16 * DigitValue(h[1]) + DigitValue(h[2])
        hi == 16 * DigitValue(h[3]) + DigitValue(h[4])
    IN  (x.t = "number" /\ x.v % Tenths = 0 /\ v \in 0..(Word - 1))
           => /\ Len(h) = 4
              /\ \A i \in 1..4 : IsHexChar(h[i])
              /\ lo = v % 256
              /\ hi = v \div 256
              /\ lo + 256 * hi = v

\* C30 witness: the hero's x is 0x1234 and the payload confirmed starts 3412
C30_Witness ==
    /\ form0A01.hero_x = Units(4660)
    /\ toLEHex(form0A01.hero_x, 2) = <<"3", "4", "1", "2">>
    /\ modelValue.t = "string"
    /\ SubSeq(modelValue.v, 1, 4) = <<"3", "4", "1", "2">>

\* the mask of the claim's assignment: supply-zone 0, center-highland 1,
\* fortress 4, base-buff 8, opponent-ramp-pre 9, opponent-ramp-post 10,
\* own-ramp-pre 11, own-ramp-post 12, highland-card 13, ramp-card 14,
\* highway-card 15
AssignedMask(f) ==
    LET Bit(flag, b) == IF f[flag] = Bool(TRUE) THEN 2 ^ b ELSE 0 IN
    Bit("occupied_supply", 0) + Bit("occupied_highland", 1)
       + Bit("occupied_fort", 4) + Bit("occupied_base", 8)
       + Bit("tunnel_opp_pre", 9) + Bit("tunnel_opp_post", 10)
       + Bit("tunnel_self_pre", 11) + Bit("tunnel_self_post", 12)
       + Bit("card_highland", 13) + Bit("card_ramp", 14)
       + Bit("card_highway", 15)

\* C31: the match-status bitmask is the OR of 1 << b over the asserted
\* flags under the assignment above (so no other bit is ever set) and is
\* emitted as four little-endian bytes; asserting exactly the flags of
\* bits 0, 8 and 15 gives 0x8101, emitted as 01810000.
C31_Mask ==
    LET payload == generatedPayload
        asserted == {f \in FlagFields : form0A04[f] = Bool(TRUE)}
    IN  activeTab = "0x0A04" =>
           /\ Len(payload) = 16
           /\ SubSeq(payload, 9, 16) =
                  LittleEndian(AssignedMask(form0A04), 4)
           /\ asserted = {"occupied_supply", "occupied_base", "card_highway"}
                 => SubSeq(payload, 9, 16) =
                       <<"0", "1", "8", "1", "0", "0", "0", "0">>

\* C31 witness: exactly the flags of bits 0, 8 and 15 are asserted and the
\* payload confirmed is 0000 0000 01810000
C31_Witness ==
    /\ {f \in FlagFields : form0A04[f] = Bool(TRUE)} =
          {"occupied_supply", "occupied_base", "card_highway"}
    /\ modelValue =
          Str(<<"0", "0", "0", "0", "0", "0", "0", "0",
                "0", "1", "8", "1", "0", "0", "0", "0">>)

\* C32: the codec falls back to zero: a field whose input is negative or
\* exceeds the field's width (above 65535 for a 16-bit field, above 255 for
\* a single byte) is encoded as 0 in exactly its declared width, so the
\* record keeps its fixed length.
C32_Fallback ==
    LET payload == generatedPayload IN
    /\ activeTab = "0x0A01" =>
          /\ Len(payload) = 48
          /\ \A f \in PositionFields :
                ~InWord(form0A01[f])
                   => toLEHex(form0A01[f], 2) = <<"0", "0", "0", "0">>
    /\ activeTab = "0x0A05" =>
          /\ Len(payload) = 72
          /\ \A i \in BuffInputs :
                (i[2] \in BuffBytes /\ ~InByte(form0A05[i[1]][i[2]]))
                   => toByte(form0A05[i[1]][i[2]]) = <<"0", "0">>

\* C33: in raw mode the payload is the operator's string without its
\* whitespace and in upper case; when that string has odd length, confirming
\* emits no payload.
C33_Raw ==
    [][(last'.op = "handleOk" /\ activeTab = "raw")
          => LET raw == ToUpperCase(RemoveWhitespace(manualHex)) IN
             IF Len(raw) % 2 = 1 THEN modelValue' = modelValue
             ELSE modelValue' = Str(raw)]_vars

C35_OwnResponse ==
    [][\A i, j \in Calls :
          (/\ i < j
           /\ callCmd[i] = callCmd[j]
           /\ caller[i].kind = "toggleStream"
           /\ caller[j].kind = "toggleStream"
           /\ caller[i].tabId[1] # caller[j].tabId[1]
           /\ sentOn[i] # 0 /\ result[i] = NoResult
           /\ sentOn[j] # 0 /\ result[j] = NoResult
           /\ last'.op = "onmessage"
           /\ last'.frame.req = i)
          => result'[j] = NoResult]_vars

\* C36: a timeout discards only the pending entry of the call that timed
\* out: when an older command named c reaches its deadline while a newer
\* command named c is in flight, the newer command's entry stays registered.
C36_TimeoutOwnEntry ==
    [][\A i, j \in Calls :
          (/\ i < j
           /\ callCmd[i] = callCmd[j]
           /\ sentOn[i] # 0 /\ result[i] = NoResult
           /\ sentOn[j] # 0 /\ result[j] = NoResult
           /\ pendingCommands[callCmd[j]] = j
           /\ last'.op = "timeout"
           /\ last'.call = i)
          => pendingCommands'[callCmd[j]] = j]_vars

\* C37: the transmit preview cached for a device is always the data of a
\* successful start_tx_signal response the peer produced for a request
\* issued for that device: a preview changes only in the step that handles
\* such a response, and takes its data.
C37_PreviewOfOwnDevice ==
    [][\A d \in Devices :
          txSpectrums'[d] # txSpectrums[d]
          => /\ last'.op = "onmessage"
             /\ last'.frame.req \in Calls
             /\ callCmd[last'.frame.req] = "start_tx_signal"
             /\ caller[last'.frame.req].kind = "startTxSignal"
             /\ caller[last'.frame.req].deviceId = d
             /\ last'.frame.success = Bool(TRUE)
             /\ txSpectrums'[d] =
                   [frequencies |-> DataField(last'.frame.data, "frequencies"),
                    power |-> DataField(last'.frame.data, "power")]]_vars

\* C38: after any sequence of createTab and removeTab calls the attached
\* devices are exactly the devices that at least one existing session
\* refers to, each listed once.
C38_AttachedSet ==
    /\ {connectedDeviceIds[i] : i \in 1..Len(connectedDeviceIds)} =
          {tabs[i].deviceId : i \in 1..Len(tabs)}
    /\ \A i, j \in 1..Len(connectedDeviceIds) :
          i # j => connectedDeviceIds[i] # connectedDeviceIds[j]

\* C38 witness: of two sessions on the same device one was removed; the
\* device is still attached, once
C38_Witness ==
    /\ last.op = "removeTab"
    /\ Len(created) = 2
    /\ created[1][1] = created[2][1]
    /\ Len(tabs) = 1
    /\ connectedDeviceIds = <<tabs[1].deviceId>>

\* the call the step has issued, 0 if it issued none
IssuedCall == IF nCalls' = nCalls + 1 THEN nCalls' ELSE 0

\* enableTx goes on after the await of call k in this step
ResumesAfter(k) == k \notin resumed /\ resumed' = resumed \cup {k}

\* what C39 says of one step
EnableTxInOrder ==
    /\ (IssuedCall # 0 /\ callCmd'[nCalls'] = "enable_tx")
          => \E k \in 1..nCalls :
                /\ callCmd[k] = "configure_device"
                /\ caller[k].kind = "enableTx"
                /\ result[k] # NoResult
                /\ ResumesAfter(k)
                /\ caller'[nCalls'].tabId = caller[k].tabId
    /\ (IssuedCall # 0 /\ callCmd'[nCalls'] = "start_tx_signal")
          => \E k \in 1..nCalls :
                /\ callCmd[k] = "enable_tx"
                /\ caller[k].kind = "enableTx"
                /\ result[k] # NoResult
                /\ result[k].success = Bool(TRUE)
                /\ ResumesAfter(k)
                /\ caller[k].tabId \in txEnabled'
                /\ \E i \in 1..Len(tabs) :
                      /\ tabs[i].id = caller[k].tabId
                      /\ tabs[i].txSignalType # "custom"
                      /\ caller'[nCalls'].deviceId = tabs[i].deviceId
    /\ \A k \in 1..nCalls :
          (/\ callCmd[k] = "enable_tx"
           /\ ResumesAfter(k)
           /\ result[k].success # Bool(TRUE))
             => IssuedCall = 0 /\ txEnabled' = txEnabled

\* C39: enabling transmission issues its commands in order. enable_tx is
\* sent only by the view going on after its configure_device has resolved;
\* start_tx_signal is sent only by the view going on after its enable_tx
\* resolved with success true, under a profile that is not custom and with
\* the view's transmit-enabled state set; going on after an enable_tx that
\* did not succeed sends nothing and leaves the transmit-enabled state as
\* it was, so a view is transmit-enabled only after an enable_tx of its own
\* resolved with success true.
C39_EnableOrder ==
    /\ [][EnableTxInOrder]_vars
    /\ [](\A t \in txEnabled :
             \E k \in resumed :
                /\ callCmd[k] = "enable_tx"
                /\ caller[k].tabId = t
                /\ result[k].success = Bool(TRUE))

\* C39 witness: configure_device, enable_tx and start_tx_signal were issued
\* in this order, enable_tx resolved with success true and the view is
\* transmit-enabled
C39_Witness ==
    /\ nCalls = 3
    /\ callCmd[1] = "configure_device"
    /\ callCmd[2] = "enable_tx"
    /\ callCmd[3] = "start_tx_signal"
    /\ result[2] # NoResult
    /\ result[2].success = Bool(TRUE)
    /\ caller[2].tabId \in txEnabled
    /\ resumed = {1, 2}

\* C40: once the channel owner is unmounted no reconnect timer is pending
\* and no new connection is opened, also when the close event of the
\* socket comes after the unmount handler has run.
C40_Unmounted ==
    /\ [](lifecycle = "unmounted" => ~reconnectTimer)
    /\ [][lifecycle = "unmounted"
             => /\ socket' = socket
                /\ \A s \in Sockets :
                      readyState[s] = "UNUSED" => readyState'[s] = "UNUSED"]_vars

====
